---- MODULE Spec2Model ----
(***************************************************************************)
(* Rental life cycle of the Sales Order controller                         *)
(* (erpnext/selling/doctype/sales_order/sales_order.py).                   *)
(*                                                                         *)
(* The document store is modelled by its tables:                            *)
(*   tabSalesOrder      the order headers, by name                         *)
(*   tabSalesOrderItem  the lines of each order (rows with parent = name)  *)
(*   tabItem            the status of each physical item                   *)
(*   tabJournalEntry    the Journal Entry documents                        *)
(*   tabPaymentEntry    the Payment Entry documents                        *)
(*   tabPurchaseOrder   the Purchase Order documents                       *)
(* Each whitelisted handler and each controller hook is one atomic action: *)
(* a request runs in one database transaction, which the framework rolls   *)
(* back when the handler raises, except for what the handler committed     *)
(* itself with frappe.db.commit().  `last` records the request that was    *)
(* served last and what it returned.  Only the part on two requests at a   *)
(* time splits a handler into its read and its write.                      *)
(***************************************************************************)
EXTENDS Integers, Sequences, FiniteSets, TLC

VARIABLES tabSalesOrder, tabSalesOrderItem, tabItem, last,
          tabJournalEntry, tabPaymentEntry, tabPurchaseOrder

vars == <<tabSalesOrder, tabSalesOrderItem, tabItem, last,
          tabJournalEntry, tabPaymentEntry, tabPurchaseOrder>>

\* The documents created for an order: Journal Entries, Payment Entries and
\* Purchase Orders.
ledger == <<tabJournalEntry, tabPaymentEntry, tabPurchaseOrder>>

(***************************************************************************)
(* Names and input sets                                                    *)
(***************************************************************************)
\* Largest number of lines an order is created with.
MaxLines == 2

\* Names a caller may pass as docname; "SO-0" names no document.
DocNames == {"SO-0", "SO-1"}

\* Physical items (Item documents).
Items == {"ITEM-A", "ITEM-B"}

\* The item of the n-th line of a freshly created order.
ItemOfLine(n) == IF n = 1 THEN "ITEM-A" ELSE "ITEM-B"

None == "None"

\* Values update_status is called with.
NewStatuses == {"Completed", "Active"}

\* Values item_replacement is given as old_item_status.
OldItemStatuses == {"Available", "Reserved"}

\* Items make_rental_device_assign is called for.
AssignItems == {"ITEM-A"}

\* Values make_rental_device_assign is given as item_group.
ItemGroups == {"Rental"}

Exists(d) == tabSalesOrder[d].exists

Existing == {d \in DocNames : Exists(d)}

NoOrder == [exists |-> FALSE, status |-> None, item_code |-> None, item_group |-> None]

Line(ic) == [item_code |-> ic, child_status |-> "", old_item_code |-> None]

Request(op, d, ret, pre) == [op |-> op, docname |-> d, ret |-> ret, pre |-> pre]

(***************************************************************************)
(* State after construction: one draft order "SO-1" with 1..MaxLines       *)
(* lines, every item Available.                                            *)
(***************************************************************************)
Init ==
    /\ \E n \in 1..MaxLines :
          tabSalesOrderItem =
             [d \in DocNames |->
                IF d = "SO-1" THEN [i \in 1..n |-> Line(ItemOfLine(i))] ELSE <<>>]
    /\ tabSalesOrder =
          [d \in DocNames |->
             IF d = "SO-1"
             THEN [exists |-> TRUE, status |-> "Draft", item_code |-> None, item_group |-> None]
             ELSE NoOrder]
    /\ tabItem = [i \in Items |-> "Available"]
    /\ last = Request("new", "SO-1", "ok", None)
    /\ tabJournalEntry = <<>>
    /\ tabPaymentEntry = <<>>
    /\ tabPurchaseOrder = <<>>

(***************************************************************************)
(* Helpers                                                                 *)
(***************************************************************************)
\* SetChildStatus that stops after the first row.
SetChildStatus_first(lns, st) ==
    [i \in DOMAIN lns |-> IF i = 1 THEN [lns[i] EXCEPT !.child_status = st] ELSE lns[i]]

\* for item in sales_order_items: child_status = st; save()
SetChildStatus(lns, st) == [i \in DOMAIN lns |-> [lns[i] EXCEPT !.child_status = st]]

\* The Item documents named by the lines of an order.
ItemsOf(lns) == {lns[i].item_code : i \in DOMAIN lns}

\* item_status_change_cancel without the revert.
item_status_change_cancel_kept(lns, its) == its

\* SalesOrder.item_status_change_cancel: every line's item that is
\* "Rented Out" becomes "Available".
item_status_change_cancel(lns, its) ==
    [i \in Items |-> IF i \in ItemsOf(lns) /\ its[i] = "Rented Out" THEN "Available" ELSE its[i]]

(***************************************************************************)
(* Controller hooks                                                        *)
(***************************************************************************)
\* SalesOrder.on_cancel.  item_status_change_cancel commits the item
\* changes before the closed-order check, so they outlive the throw.
on_cancel(d) ==
    /\ Exists(d)
    /\ tabItem' = item_status_change_cancel(tabSalesOrderItem[d], tabItem)
    /\ IF tabSalesOrder[d].status = "Closed"
       THEN /\ last' = Request("on_cancel", d, "error", None)
            /\ UNCHANGED <<tabSalesOrder, tabSalesOrderItem>>
       ELSE /\ tabSalesOrder' = [tabSalesOrder EXCEPT ![d].status = "Cancelled"]
            /\ last' = Request("on_cancel", d, "ok", None)
            /\ UNCHANGED tabSalesOrderItem
    /\ UNCHANGED ledger

\* SalesOrder.on_trash, and the deletion of the document that follows it.
on_trash(d) ==
    /\ Exists(d)
    /\ tabItem' = item_status_change_cancel(tabSalesOrderItem[d], tabItem)
    /\ tabSalesOrder' = [tabSalesOrder EXCEPT ![d] = NoOrder]
    /\ tabSalesOrderItem' = [tabSalesOrderItem EXCEPT ![d] = <<>>]
    /\ last' = Request("on_trash", d, "ok", None)
    /\ UNCHANGED ledger

(***************************************************************************)
(* make_approved                                                           *)
(***************************************************************************)
\* The orders in which frappe.get_all may return the rows of an order
\* (no order_by is given).
RowOrders(lns) ==
    {p \in [DOMAIN lns -> DOMAIN lns] : \A i, j \in DOMAIN lns : p[i] = p[j] => i = j}

\* The loop of make_approved from the i-th fetched row on: an Available
\* item is reserved, its line approved and the order saved as "Approved";
\* the first item that is not Available ends the loop (break).
RECURSIVE ApproveLoop(_, _, _, _, _)
ApproveLoop(i, ord, lns, its, st) ==
    IF i > Len(lns)
    THEN [lines |-> lns, item |-> its, status |-> st]
    ELSE IF its[lns[ord[i]].item_code] = "Available"
         THEN ApproveLoop(i + 1, ord,
                          [lns EXCEPT ![ord[i]].child_status = "Approved"],
                          [its EXCEPT ![lns[ord[i]].item_code] = "Reserved"],
                          "Approved")
         ELSE [lines |-> lns, item |-> its, status |-> st]

make_approved(d) ==
    /\ Exists(d)
    /\ \E ord \in RowOrders(tabSalesOrderItem[d]) :
          LET r == ApproveLoop(1, ord, tabSalesOrderItem[d], tabItem, tabSalesOrder[d].status)
          IN /\ tabItem' = r.item
             /\ tabSalesOrderItem' = [tabSalesOrderItem EXCEPT ![d] = r.lines]
             /\ tabSalesOrder' = [tabSalesOrder EXCEPT ![d].status = r.status]
    /\ last' = Request("make_approved", d, "Approved Success", None)
    /\ UNCHANGED ledger

(***************************************************************************)
(* make_rental_device_assign (the second definition, which replaces the    *)
(* first when the module is loaded)                                        *)
(***************************************************************************)
\* except frappe.DoesNotExistError: the item is set Available and
\* committed, then the handler fails on the unbound `doc`.
AssignMissingOrder(d, ic) ==
    /\ ~Exists(d)
    /\ tabItem' = [tabItem EXCEPT ![ic] = "Available"]
    /\ last' = Request("make_rental_device_assign", d, "error", None)
    /\ UNCHANGED <<tabSalesOrder, tabSalesOrderItem>>
    /\ UNCHANGED ledger

\* else: frappe.msgprint("Item is not available for reservation.")
AssignNotAvailable(d, ic) ==
    /\ Exists(d)
    /\ tabItem[ic] # "Available"
    /\ last' = Request("make_rental_device_assign", d, "Item is not available for reservation.", None)
    /\ UNCHANGED <<tabSalesOrder, tabSalesOrderItem, tabItem>>
    /\ UNCHANGED ledger

\* AssignAvailable without the commit: a failed save rolls the item back.
AssignAvailable_uncommitted(d, ig, ic, saved) ==
    /\ Exists(d)
    /\ tabItem[ic] = "Available"
    /\ IF saved
       THEN /\ tabItem' = [tabItem EXCEPT ![ic] = "Reserved"]
            /\ tabSalesOrder' = [tabSalesOrder EXCEPT ![d].item_group = ig,
                                                       ![d].item_code = ic,
                                                       ![d].status = "Rental Device Assigned"]
            /\ last' = Request("make_rental_device_assign", d, "Rental Device Assigned Success", None)
       ELSE /\ UNCHANGED <<tabSalesOrder, tabItem>>
            /\ last' = Request("make_rental_device_assign", d, "error", None)
    /\ UNCHANGED tabSalesOrderItem
    /\ UNCHANGED ledger

\* The item is reserved and committed, then the order is saved;
\* saved = FALSE is a doc.save() that raises: the handler throws, the
\* order's changes are rolled back, the committed item status stays.
AssignAvailable(d, ig, ic, saved) ==
    /\ Exists(d)
    /\ tabItem[ic] = "Available"
    /\ tabItem' = [tabItem EXCEPT ![ic] = "Reserved"]
    /\ IF saved
       THEN /\ tabSalesOrder' = [tabSalesOrder EXCEPT ![d].item_group = ig,
                                                       ![d].item_code = ic,
                                                       ![d].status = "Rental Device Assigned"]
            /\ last' = Request("make_rental_device_assign", d, "Rental Device Assigned Success", None)
       ELSE /\ UNCHANGED tabSalesOrder
            /\ last' = Request("make_rental_device_assign", d, "error", None)
    /\ UNCHANGED tabSalesOrderItem
    /\ UNCHANGED ledger

make_rental_device_assign(d, ig, ic, saved) ==
    \/ AssignMissingOrder(d, ic)
    \/ AssignNotAvailable(d, ic)
    \/ AssignAvailable(d, ig, ic, saved)

(***************************************************************************)
(* Order-level status handlers                                             *)
(***************************************************************************)
\* The common shape of make_ready_for_delivery, make_dispatch,
\* make_ready_for_pickup and make_pickedup: the order gets the status,
\* then every line gets it as child_status.
SetOrderAndLines(d, st) ==
    /\ tabSalesOrder' = [tabSalesOrder EXCEPT ![d].status = st]
    /\ tabSalesOrderItem' = [tabSalesOrderItem EXCEPT ![d] = SetChildStatus(@, st)]

make_ready_for_delivery(d) ==
    /\ Exists(d)
    /\ SetOrderAndLines(d, "Ready for Delivery")
    /\ last' = Request("make_ready_for_delivery", d, "Ready for Delivery Success", None)
    /\ UNCHANGED tabItem
    /\ UNCHANGED ledger

make_dispatch(d) ==
    /\ Exists(d)
    /\ SetOrderAndLines(d, "DISPATCHED")
    /\ last' = Request("make_dispatch", d, "Rental Device DISPATCHED Success", tabSalesOrder[d].status)
    /\ UNCHANGED tabItem
    /\ UNCHANGED ledger

\* make_delivered that leaves the items as they are.
make_delivered_kept(d) ==
    /\ Exists(d)
    /\ SetOrderAndLines(d, "Active")
    /\ last' = Request("make_delivered", d, "Rental Device DELIVERED Success", None)
    /\ UNCHANGED tabItem
    /\ UNCHANGED ledger

make_delivered(d) ==
    /\ Exists(d)
    /\ tabItem' = [i \in Items |-> IF i \in ItemsOf(tabSalesOrderItem[d]) THEN "Rented Out" ELSE tabItem[i]]
    /\ SetOrderAndLines(d, "Active")
    /\ last' = Request("make_delivered", d, "Rental Device DELIVERED Success", None)
    /\ UNCHANGED ledger

make_ready_for_pickup(d) ==
    /\ Exists(d)
    /\ SetOrderAndLines(d, "Ready for Pickup")
    /\ last' = Request("make_ready_for_pickup", d, "Sales Order is Ready for Pickup", None)
    /\ UNCHANGED tabItem
    /\ UNCHANGED ledger

\* make_pickedup with a check of the current status.
make_pickedup_checked(d) ==
    /\ Exists(d)
    /\ IF tabSalesOrder[d].status = "Ready for Pickup"
       THEN /\ SetOrderAndLines(d, "Picked Up")
            /\ last' = Request("make_pickedup", d, "Sales Order is marked as Picked Up.", tabSalesOrder[d].status)
       ELSE /\ UNCHANGED <<tabSalesOrder, tabSalesOrderItem>>
            /\ last' = Request("make_pickedup", d, "error", tabSalesOrder[d].status)
    /\ UNCHANGED tabItem
    /\ UNCHANGED ledger

make_pickedup(d) ==
    /\ Exists(d)
    /\ SetOrderAndLines(d, "Picked Up")
    /\ last' = Request("make_pickedup", d, "Sales Order is marked as Picked Up.", tabSalesOrder[d].status)
    /\ UNCHANGED tabItem
    /\ UNCHANGED ledger

\* item_codes is the caller's list, not read from the order's lines.
make_submitted_to_office(d, item_codes) ==
    /\ Exists(d)
    /\ tabItem' = [i \in Items |-> IF i \in item_codes THEN "Available" ELSE tabItem[i]]
    /\ SetOrderAndLines(d, "Submitted to Office")
    /\ last' = Request("make_submitted_to_office", d, "Submitted to Office Success", None)
    /\ UNCHANGED ledger

on_hold(d) ==
    /\ Exists(d)
    /\ tabSalesOrder' = [tabSalesOrder EXCEPT ![d].status = "On Hold"]
    /\ last' = Request("on_hold", d, "True", None)
    /\ UNCHANGED <<tabSalesOrderItem, tabItem>>
    /\ UNCHANGED ledger

update_status(d, new_status) ==
    /\ Exists(d)
    /\ tabSalesOrder' = [tabSalesOrder EXCEPT ![d].status = new_status]
    /\ last' = Request("update_status", d, "True", None)
    /\ UNCHANGED <<tabSalesOrderItem, tabItem>>
    /\ UNCHANGED ledger

close_rental_order(d) ==
    /\ Exists(d)
    /\ tabSalesOrder' = [tabSalesOrder EXCEPT ![d].status = "Closed"]
    /\ last' = Request("close_rental_order", d, "True", None)
    /\ UNCHANGED <<tabSalesOrderItem, tabItem>>
    /\ UNCHANGED ledger

(***************************************************************************)
(* Line-level status handlers.  child_name is the row the caller names;    *)
(* it is drawn from the rows of the order (n is its index).                *)
(***************************************************************************)
\* UpdateLineOnly that saves the order too when it has several lines.
UpdateLineOnly_header(d, n, st) ==
    /\ tabSalesOrderItem' = [tabSalesOrderItem EXCEPT ![d][n].child_status = st]
    /\ tabSalesOrder' = [tabSalesOrder EXCEPT ![d].status = st]

\* The common shape of update_status_to_ready_for_pickup,
\* update_status_to_picked_up, update_status_to_active and
\* update_status_back_to_ready_for_pickup: with one line the line and the
\* order get the status; with several lines only the named line does.
UpdateLineOnly(d, n, st) ==
    IF Len(tabSalesOrderItem[d]) = 1
    THEN /\ tabSalesOrderItem' = [tabSalesOrderItem EXCEPT ![d][1].child_status = st]
         /\ tabSalesOrder' = [tabSalesOrder EXCEPT ![d].status = st]
    ELSE /\ tabSalesOrderItem' = [tabSalesOrderItem EXCEPT ![d][n].child_status = st]
         /\ UNCHANGED tabSalesOrder

update_status_to_ready_for_pickup(d, n) ==
    /\ Exists(d)
    /\ n \in DOMAIN tabSalesOrderItem[d]
    /\ UpdateLineOnly(d, n, "Ready for Pickup")
    /\ last' = Request("update_status_to_ready_for_pickup", d, "True", None)
    /\ UNCHANGED tabItem
    /\ UNCHANGED ledger

update_status_to_picked_up(d, n) ==
    /\ Exists(d)
    /\ n \in DOMAIN tabSalesOrderItem[d]
    /\ UpdateLineOnly(d, n, "Picked Up")
    /\ last' = Request("update_status_to_picked_up", d, "True", None)
    /\ UNCHANGED tabItem
    /\ UNCHANGED ledger

update_status_to_active(d, n) ==
    /\ Exists(d)
    /\ n \in DOMAIN tabSalesOrderItem[d]
    /\ UpdateLineOnly(d, n, "Active")
    /\ last' = Request("update_status_to_active", d, "True", None)
    /\ UNCHANGED tabItem
    /\ UNCHANGED ledger

update_status_back_to_ready_for_pickup(d, n) ==
    /\ Exists(d)
    /\ n \in DOMAIN tabSalesOrderItem[d]
    /\ UpdateLineOnly(d, n, "Ready for Pickup")
    /\ last' = Request("update_status_back_to_ready_for_pickup", d, "True", None)
    /\ UNCHANGED tabItem
    /\ UNCHANGED ledger

\* The header status update_status_to_submitted_to_office gives an order
\* with several lines.
SubmittedVote(lns) ==
    IF \A i \in DOMAIN lns : lns[i].child_status = "Submitted to Office"
    THEN "Submitted to Office"
    ELSE "Partially Closed"

\* The documents a handler called for order d reads and writes.
Db(d) == [order |-> tabSalesOrder[d], lines |-> tabSalesOrderItem[d], item |-> tabItem]

\* The documents after update_status_to_submitted_to_office for row n.
\* item_code is the caller's; it is set Available whatever line is named.
SubmittedToOffice(ic, n, db) ==
    IF Len(db.lines) = 1
    THEN [order |-> [db.order EXCEPT !.status = "Submitted to Office"],
          lines |-> [db.lines EXCEPT ![1].child_status = "Submitted to Office"],
          item |-> [db.item EXCEPT ![ic] = "Available"]]
    ELSE LET lns == [db.lines EXCEPT ![n].child_status = "Submitted to Office"]
         IN [order |-> [db.order EXCEPT !.status = SubmittedVote(lns)],
             lines |-> lns,
             item |-> [db.item EXCEPT ![ic] = "Available"]]

update_status_to_submitted_to_office(ic, d, n) ==
    /\ Exists(d)
    /\ n \in DOMAIN tabSalesOrderItem[d]
    /\ LET db == SubmittedToOffice(ic, n, Db(d))
       IN /\ tabItem' = db.item
          /\ tabSalesOrderItem' = [tabSalesOrderItem EXCEPT ![d] = db.lines]
          /\ tabSalesOrder' = [tabSalesOrder EXCEPT ![d] = db.order]
    /\ last' = Request("update_status_to_submitted_to_office", d, "True", None)
    /\ UNCHANGED ledger

\* PickupVote that never reports a partial closure.
PickupVote_active(lns) == "Active"

\* The header status update_status_to_pickup gives an order with several
\* lines.
PickupVote(lns) ==
    IF \A i \in DOMAIN lns : lns[i].child_status # "Submitted to Office"
    THEN "Active"
    ELSE "Partially Closed"

\* The documents after update_status_to_pickup for row n.
Pickup(ic, n, db) ==
    IF Len(db.lines) = 1
    THEN [order |-> [db.order EXCEPT !.status = "Picked Up"],
          lines |-> [db.lines EXCEPT ![1].child_status = "Picked Up"],
          item |-> [db.item EXCEPT ![ic] = "Rented Out"]]
    ELSE LET lns == [db.lines EXCEPT ![n].child_status = "Picked Up"]
         IN [order |-> [db.order EXCEPT !.status = PickupVote(lns)],
             lines |-> lns,
             item |-> [db.item EXCEPT ![ic] = "Rented Out"]]

update_status_to_pickup(ic, d, n) ==
    /\ Exists(d)
    /\ n \in DOMAIN tabSalesOrderItem[d]
    /\ LET db == Pickup(ic, n, Db(d))
       IN /\ tabItem' = db.item
          /\ tabSalesOrderItem' = [tabSalesOrderItem EXCEPT ![d] = db.lines]
          /\ tabSalesOrder' = [tabSalesOrder EXCEPT ![d] = db.order]
    /\ last' = Request("update_status_to_pickup", d, "True", None)
    /\ UNCHANGED ledger

(***************************************************************************)
(* item_replacement                                                        *)
(***************************************************************************)
\* ReplaceLines that resets the line it replaces to "Approved".
ReplaceLines_reset(lns, ic, new_item) ==
    [i \in DOMAIN lns |->
       IF lns[i].item_code = ic
       THEN [item_code |-> new_item, child_status |-> "Approved", old_item_code |-> ic]
       ELSE lns[i]]

\* The loop over the lines that hold item_code: a "Picked Up" line becomes
\* "Active", any other keeps its child_status; each takes the new item.
ReplaceLines(lns, ic, new_item) ==
    [i \in DOMAIN lns |->
       IF lns[i].item_code = ic
       THEN [item_code |-> new_item,
             child_status |-> IF lns[i].child_status = "Picked Up" THEN "Active" ELSE lns[i].child_status,
             old_item_code |-> ic]
       ELSE lns[i]]

\* The rows of the order that hold item_code.
Matching(lns, ic) == {i \in DOMAIN lns : lns[i].item_code = ic}

\* The status the new item is left with by that loop: each matching row
\* saves it in turn, so the row handled last (k) decides.
NewItemStatus(lns, k) ==
    IF lns[k].child_status = "Picked Up" THEN "Rented Out" ELSE "Reserved"

\* The header status item_replacement saves (cur when it saves none).
ReplacementVote(lns, cur) ==
    IF \E i \in DOMAIN lns : lns[i].child_status \notin {"Ready for Delivery", "DISPATCHED"}
    THEN IF \A i \in DOMAIN lns : lns[i].child_status = "Active" THEN "Active"
         ELSE IF \E i \in DOMAIN lns : lns[i].child_status = "Submitted to Office" THEN "Partially Closed"
         ELSE IF \E i \in DOMAIN lns : lns[i].child_status # "Submitted to Office" THEN "Active"
         ELSE cur
    ELSE cur

item_replacement(ic, new_item, d, old_item_status) ==
    /\ Exists(d)
    /\ LET lns == ReplaceLines(tabSalesOrderItem[d], ic, new_item)
       IN /\ tabSalesOrderItem' = [tabSalesOrderItem EXCEPT ![d] = lns]
          /\ IF Matching(tabSalesOrderItem[d], ic) = {}
             THEN tabItem' = [tabItem EXCEPT ![ic] = old_item_status]
             ELSE \E k \in Matching(tabSalesOrderItem[d], ic) :
                     tabItem' = [[tabItem EXCEPT ![new_item] = NewItemStatus(tabSalesOrderItem[d], k)]
                                    EXCEPT ![ic] = old_item_status]
          /\ tabSalesOrder' = [tabSalesOrder EXCEPT ![d].status = ReplacementVote(lns, @)]
    /\ last' = Request("item_replacement", d, "True", None)
    /\ UNCHANGED ledger

Next ==
    \/ \E d \in Existing : on_cancel(d)
    \/ \E d \in Existing, n \in 1..MaxLines : update_status_to_ready_for_pickup(d, n)
    \/ \E d \in Existing, n \in 1..MaxLines : update_status_to_picked_up(d, n)
    \/ \E d \in Existing, n \in 1..MaxLines : update_status_to_active(d, n)
    \/ \E d \in Existing, n \in 1..MaxLines : update_status_back_to_ready_for_pickup(d, n)
    \/ \E d \in Existing, n \in 1..MaxLines, ic \in Items : update_status_to_submitted_to_office(ic, d, n)
    \/ \E d \in Existing, n \in 1..MaxLines, ic \in Items : update_status_to_pickup(ic, d, n)
    \/ \E d \in Existing, ic \in Items, ois \in OldItemStatuses : \E new_item \in Items \ {ic} :
          item_replacement(ic, new_item, d, ois)
    \/ \E d \in Existing : on_trash(d)
    \/ \E d \in Existing : make_approved(d)
    \/ \E d \in DocNames, ig \in ItemGroups, ic \in AssignItems, saved \in BOOLEAN :
          make_rental_device_assign(d, ig, ic, saved)
    \/ \E d \in Existing : make_ready_for_delivery(d)
    \/ \E d \in Existing : make_dispatch(d)
    \/ \E d \in Existing : make_delivered(d)
    \/ \E d \in Existing : make_ready_for_pickup(d)
    \/ \E d \in Existing : make_pickedup(d)
    \/ \E d \in Existing, item_codes \in SUBSET Items : make_submitted_to_office(d, item_codes)
    \/ \E d \in Existing : on_hold(d)
    \/ \E d \in Existing, new_status \in NewStatuses : update_status(d, new_status)
    \/ \E d \in Existing : close_rental_order(d)

Spec == Init /\ [][Next]_vars


(***************************************************************************)
(* Renewal: create_renewal_order, the edit of a draft's dates, and the     *)
(* submission of an order (before_submit, then on_submit).  Orders here    *)
(* carry docstatus, previous_order_id, start_date and end_date; a date is  *)
(* a day number or NoDate.                                                  *)
(***************************************************************************)
\* Last day of the calendar the dates are drawn from.
MaxDay == 3

Days == 1..MaxDay

\* A date field that is not set (None).
NoDate == 0

\* Names the naming series hands out, in this order.
OrderNames == <<"SO-1", "SO-2">>

RenewalNames == {OrderNames[i] : i \in DOMAIN OrderNames}

\* The (start_date, end_date) pairs an order is saved with.
DatePairs ==
    {p \in (Days \cup {NoDate}) \X (Days \cup {NoDate}) :
        (p[1] # NoDate /\ p[2] # NoDate) => p[1] <= p[2]}

NoRentalOrder ==
    [exists |-> FALSE, status |-> None, docstatus |-> 0, previous_order_id |-> None,
     start_date |-> NoDate, end_date |-> NoDate]

InitRenewal ==
    /\ \E n \in 1..MaxLines :
          tabSalesOrderItem =
             [d \in RenewalNames |->
                IF d = "SO-1" THEN [i \in 1..n |-> Line(ItemOfLine(i))] ELSE <<>>]
    /\ \E p \in DatePairs :
          tabSalesOrder =
             [d \in RenewalNames |->
                IF d = "SO-1"
                THEN [exists |-> TRUE, status |-> "Draft", docstatus |-> 1,
                      previous_order_id |-> None, start_date |-> p[1], end_date |-> p[2]]
                ELSE NoRentalOrder]
    /\ tabItem = [i \in Items |-> "Available"]
    /\ last = Request("new", "SO-1", "ok", None)
    /\ tabJournalEntry = <<>>
    /\ tabPaymentEntry = <<>>
    /\ tabPurchaseOrder = <<>>

\* The name insert() gives the next new order.
NewName ==
    OrderNames[CHOOSE i \in DOMAIN OrderNames :
                  /\ ~tabSalesOrder[OrderNames[i]].exists
                  /\ \A j \in 1..(i - 1) : tabSalesOrder[OrderNames[j]].exists]

\* create_renewal_order: a copy of the original (frappe.copy_doc: a new
\* draft with the same fields and rows) is stamped with the original's name
\* and inserted; the original is not written.
create_renewal_order(sales_order_name) ==
    /\ Exists(sales_order_name)
    /\ \E i \in DOMAIN OrderNames : ~tabSalesOrder[OrderNames[i]].exists
    /\ tabSalesOrder' =
          [tabSalesOrder EXCEPT
             ![NewName] = [tabSalesOrder[sales_order_name] EXCEPT
                              !.status = "Draft", !.docstatus = 0,
                              !.previous_order_id = sales_order_name]]
    /\ tabSalesOrderItem' = [tabSalesOrderItem EXCEPT ![NewName] = tabSalesOrderItem[sales_order_name]]
    /\ last' = Request("create_renewal_order", NewName, "ok", None)
    /\ UNCHANGED <<tabItem, ledger>>

\* The save of a draft with the dates the user entered.
save_dates(d, p) ==
    /\ Exists(d)
    /\ tabSalesOrder[d].docstatus = 0
    /\ tabSalesOrder' = [tabSalesOrder EXCEPT ![d].start_date = p[1], ![d].end_date = p[2]]
    /\ last' = Request("save", d, "ok", None)
    /\ UNCHANGED <<tabSalesOrderItem, tabItem, ledger>>

\* check_overlap with strict comparisons.
check_overlap_strict(self, previous_order) ==
    IF self.start_date # NoDate /\ self.end_date # NoDate
    THEN IF previous_order.end_date = NoDate THEN "TypeError"
         ELSE IF ~(self.start_date < previous_order.end_date) THEN "False"
         ELSE IF previous_order.start_date = NoDate THEN "TypeError"
         ELSE IF self.end_date > previous_order.start_date THEN "True" ELSE "False"
    ELSE "False"

\* check_overlap: "False" when a date of the renewal is missing; else
\* start_date <= previous end_date and end_date >= previous start_date,
\* evaluated left to right; comparing a date with a missing one raises
\* TypeError.
check_overlap(self, previous_order) ==
    IF self.start_date # NoDate /\ self.end_date # NoDate
    THEN IF previous_order.end_date = NoDate THEN "TypeError"
         ELSE IF ~(self.start_date <= previous_order.end_date) THEN "False"
         ELSE IF previous_order.start_date = NoDate THEN "TypeError"
         ELSE IF self.end_date >= previous_order.start_date THEN "True" ELSE "False"
    ELSE "False"

\* before_submit that throws when the dates do not overlap.
before_submit_inverted(d) ==
    IF tabSalesOrder[d].previous_order_id # None
    THEN LET overlap == check_overlap(tabSalesOrder[d], tabSalesOrder[tabSalesOrder[d].previous_order_id])
         IN IF overlap = "TypeError" THEN "TypeError"
            ELSE IF overlap = "False"
                 THEN "Current start and end dates overlap with the previous order."
                 ELSE "ok"
    ELSE "ok"

\* SalesOrder.before_submit: the outcome of the guard.
before_submit(d) ==
    IF tabSalesOrder[d].previous_order_id # None
    THEN LET overlap == check_overlap(tabSalesOrder[d], tabSalesOrder[tabSalesOrder[d].previous_order_id])
         IN IF overlap = "TypeError" THEN "TypeError"
            ELSE IF overlap = "True"
                 THEN "Current start and end dates overlap with the previous order."
                 ELSE "ok"
    ELSE "ok"

\* update_sales_order_status that leaves the rows alone.
update_sales_order_status_header(d) ==
    IF tabSalesOrder[d].previous_order_id # None
    THEN LET prev == tabSalesOrder[d].previous_order_id
         IN /\ tabSalesOrder' = [tabSalesOrder EXCEPT ![d].docstatus = 1, ![prev].status = "RENEWED"]
            /\ UNCHANGED tabSalesOrderItem
    ELSE /\ tabSalesOrder' = [tabSalesOrder EXCEPT ![d].docstatus = 1]
         /\ UNCHANGED tabSalesOrderItem

\* The end of a submission: the document is submitted and
\* SalesOrder.update_sales_order_status marks the predecessor "RENEWED"
\* and each of its rows "Renewed".
update_sales_order_status(d) ==
    IF tabSalesOrder[d].previous_order_id # None
    THEN LET prev == tabSalesOrder[d].previous_order_id
         IN /\ tabSalesOrder' = [tabSalesOrder EXCEPT ![d].docstatus = 1, ![prev].status = "RENEWED"]
            /\ tabSalesOrderItem' = [tabSalesOrderItem EXCEPT ![prev] = SetChildStatus(@, "Renewed")]
    ELSE /\ tabSalesOrder' = [tabSalesOrder EXCEPT ![d].docstatus = 1]
         /\ UNCHANGED tabSalesOrderItem

\* The submission of a draft: before_submit, then on_submit, whose last
\* call is update_sales_order_status.  passed = FALSE is an earlier step of
\* on_submit that throws (credit limit, deposit entry, authorization):
\* the request is rolled back.
submit(d, passed) ==
    /\ Exists(d)
    /\ tabSalesOrder[d].docstatus = 0
    /\ IF before_submit(d) # "ok"
       THEN /\ last' = Request("submit", d, before_submit(d), None)
            /\ UNCHANGED <<tabSalesOrder, tabSalesOrderItem>>
       ELSE IF ~passed
            THEN /\ last' = Request("submit", d, "error", None)
                 /\ UNCHANGED <<tabSalesOrder, tabSalesOrderItem>>
            ELSE /\ update_sales_order_status(d)
                 /\ last' = Request("submit", d, "ok", None)
    /\ UNCHANGED <<tabItem, ledger>>

NextRenewal ==
    \/ \E d \in RenewalNames : create_renewal_order(d)
    \/ \E d \in RenewalNames, p \in DatePairs : save_dates(d, p)
    \/ \E d \in RenewalNames, passed \in BOOLEAN : submit(d, passed)
    \/ \E d \in {"SO-1"} : make_delivered(d)

SpecRenewal == InitRenewal /\ [][NextRenewal]_vars

(***************************************************************************)
(* Payments: process_payment, the status recomputations, and the cancel    *)
(* of a journal entry.  The order here carries the amounts and the payment *)
(* fields; tabJournalEntry and tabPaymentEntry hold the entries in the     *)
(* order of their creation.                                                *)
(***************************************************************************)
\* Largest number of journal entries, and of payment entries, created.
MaxEntries == 2

\* Values of rounded_total and of security_deposit of the order.
Totals == {0, 1000}

Deposits == {1000}

\* Values process_payment is given as rental_payment_amount and
\* security_deposit_payment_amount, and as balance_amount and
\* outstanding_security_deposit_amount.
PaymentAmounts == {-500, 0, 500}

BalanceArgs == {0, 500, 1000}

\* The three-way classification of validate_and_update_payment_status
\* with the zero test first.
PaymentStatus_zero_first(rounded_total, advance_paid) ==
    IF advance_paid = 0 THEN "UnPaid"
    ELSE IF rounded_total = advance_paid THEN "Paid"
    ELSE "Partially Paid"

\* The three-way classification of validate_and_update_payment_status.
PaymentStatus(rounded_total, advance_paid) ==
    IF rounded_total = advance_paid THEN "Paid"
    ELSE IF advance_paid = 0 THEN "UnPaid"
    ELSE "Partially Paid"

\* The three-way classification of security_deposit_status.
SecurityDepositStatus(security_deposit, outstanding) ==
    IF outstanding = 0 THEN "Paid"
    ELSE IF outstanding = security_deposit THEN "Unpaid"
    ELSE "Partially Paid"

RECURSIVE SumDebit(_)
SumDebit(entries) ==
    IF entries = <<>> THEN 0 ELSE Head(entries).total_debit + SumDebit(Tail(entries))

\* frappe.get_all("Journal Entry", filters = sales_order_id and
\* security_deposite_type "Cash Received From Client"): no filter on
\* docstatus.
CashReceived(docname) ==
    SelectSeq(tabJournalEntry,
              LAMBDA je : /\ je.sales_order_id = docname
                          /\ je.security_deposite_type = "Cash Received From Client")

JournalEntry(docname, type, amount) ==
    [sales_order_id |-> docname, security_deposite_type |-> type,
     total_debit |-> amount, docstatus |-> 1]

PaymentEntry(docname, amount) ==
    [reference_name |-> docname, paid_amount |-> amount, docstatus |-> 1]

InitPayment ==
    /\ \E t \in Totals, sd \in Deposits :
          /\ tabSalesOrder =
                [d \in {"SO-1"} |->
                   [exists |-> TRUE, status |-> "Draft",
                    rounded_total |-> t, advance_paid |-> 0,
                    balance_amount |-> t, payment_status |-> PaymentStatus(t, 0),
                    security_deposit |-> sd,
                    paid_security_deposite_amount |-> 0,
                    outstanding_security_deposit_amount |-> sd,
                    security_deposit_status |-> SecurityDepositStatus(sd, sd)]]
          /\ tabJournalEntry =
                IF sd > 0
                THEN <<JournalEntry("SO-1", "Booking as Advance From Client", sd)>>
                ELSE <<>>
    /\ tabPaymentEntry = <<>>
    /\ tabPurchaseOrder = <<>>
    /\ tabSalesOrderItem = [d \in {"SO-1"} |-> <<Line(ItemOfLine(1))>>]
    /\ tabItem = [i \in Items |-> "Available"]
    /\ last = Request("new", "SO-1", "ok", None)

\* The payment part shared by validate_and_update_payment_status and
\* validate_and_update_payment_and_security_deposit_status.
WithPaymentStatus(so) ==
    [so EXCEPT !.balance_amount = so.rounded_total - so.advance_paid,
               !.payment_status = PaymentStatus(so.rounded_total, so.advance_paid)]

\* The deposit part shared by security_deposit_status and
\* validate_and_update_payment_and_security_deposit_status.
WithSecurityDepositStatus(so, docname) ==
    LET total_debit_amount == SumDebit(CashReceived(docname))
        outstanding == so.security_deposit - total_debit_amount
    IN [so EXCEPT !.paid_security_deposite_amount = total_debit_amount,
                  !.outstanding_security_deposit_amount = outstanding,
                  !.security_deposit_status = SecurityDepositStatus(so.security_deposit, outstanding)]

validate_and_update_payment_status(docname) ==
    /\ Exists(docname)
    /\ tabSalesOrder' = [tabSalesOrder EXCEPT ![docname] = WithPaymentStatus(@)]
    /\ last' = Request("validate_and_update_payment_status", docname, "ok", None)
    /\ UNCHANGED <<tabSalesOrderItem, tabItem, ledger>>

validate_and_update_payment_and_security_deposit_status(docname) ==
    /\ Exists(docname)
    /\ tabSalesOrder' =
          [tabSalesOrder EXCEPT ![docname] = WithSecurityDepositStatus(WithPaymentStatus(@), docname)]
    /\ last' = Request("validate_and_update_payment_and_security_deposit_status", docname, "True", None)
    /\ UNCHANGED <<tabSalesOrderItem, tabItem, ledger>>

security_deposit_status(docname) ==
    /\ Exists(docname)
    /\ tabSalesOrder' = [tabSalesOrder EXCEPT ![docname] = WithSecurityDepositStatus(@, docname)]
    /\ last' = Request("security_deposit_status", docname, "True", None)
    /\ UNCHANGED <<tabSalesOrderItem, tabItem, ledger>>

\* cancel_and_delete_journal_entry: a submitted entry is cancelled and the
\* cancel committed, then the entry is deleted; deleted = FALSE is a
\* frappe.delete_doc that raises, which leaves the cancelled entry.
cancel_and_delete_journal_entry(i, deleted) ==
    /\ i \in DOMAIN tabJournalEntry
    /\ IF tabJournalEntry[i].docstatus = 1
       THEN IF deleted
            THEN /\ tabJournalEntry' =
                       [k \in 1..(Len(tabJournalEntry) - 1) |->
                          IF k < i THEN tabJournalEntry[k] ELSE tabJournalEntry[k + 1]]
                 /\ last' = Request("cancel_and_delete_journal_entry", "SO-1", "True", None)
            ELSE /\ tabJournalEntry' = [tabJournalEntry EXCEPT ![i].docstatus = 2]
                 /\ last' = Request("cancel_and_delete_journal_entry", "SO-1", "error", None)
       ELSE /\ UNCHANGED tabJournalEntry
            /\ last' = Request("cancel_and_delete_journal_entry", "SO-1", "False", None)
    /\ UNCHANGED <<tabSalesOrder, tabSalesOrderItem, tabItem, tabPaymentEntry, tabPurchaseOrder>>

\* PaymentError that forgets the balance check when both amounts are paid.
PaymentError_deposit_only(balance_amount, outstanding_security_deposit_amount, rental_payment_amount, security_deposit_payment_amount) ==
    IF rental_payment_amount < 0 \/ security_deposit_payment_amount < 0
    THEN "Payment amounts cannot be negative."
    ELSE IF balance_amount < 0 \/ outstanding_security_deposit_amount < 0
    THEN "Balance amounts cannot be negative."
    ELSE IF /\ security_deposit_payment_amount > 0
            /\ security_deposit_payment_amount > outstanding_security_deposit_amount
    THEN "Security Deposit Payment Amount cannot be greater than the Security Deposit Amount."
    ELSE IF /\ security_deposit_payment_amount = 0
            /\ rental_payment_amount > 0
            /\ rental_payment_amount > balance_amount
    THEN "Rental Payment Amount cannot be greater than the Balance Amount."
    ELSE ""

\* The checks of process_payment, in the order the code makes them: the
\* message it throws, or "" when it throws none.
PaymentError(balance_amount, outstanding_security_deposit_amount, rental_payment_amount, security_deposit_payment_amount) ==
    IF rental_payment_amount < 0 \/ security_deposit_payment_amount < 0
    THEN "Payment amounts cannot be negative."
    ELSE IF balance_amount < 0 \/ outstanding_security_deposit_amount < 0
    THEN "Balance amounts cannot be negative."
    ELSE IF /\ security_deposit_payment_amount > 0
            /\ security_deposit_payment_amount > outstanding_security_deposit_amount
    THEN "Security Deposit Payment Amount cannot be greater than the Security Deposit Amount."
    ELSE IF /\ rental_payment_amount > 0
            /\ rental_payment_amount > balance_amount
    THEN "Rental Payment Amount cannot be greater than the Balance Amount."
    ELSE ""

\* The arguments of a process_payment call, as `last` records them.
PaymentArgs(balance_amount, outstanding_security_deposit_amount, rental_payment_amount, security_deposit_payment_amount) ==
    [balance_amount |-> balance_amount,
     outstanding_security_deposit_amount |-> outstanding_security_deposit_amount,
     rental_payment_amount |-> rental_payment_amount,
     security_deposit_payment_amount |-> security_deposit_payment_amount]

\* create_security_deposit_journal_entry_payment: the entries after the
\* insert and submit of a "Cash Received From Client" entry.
create_security_deposit_journal_entry_payment(security_deposit_payment_amount, sales_order_name) ==
    Append(tabJournalEntry,
           JournalEntry(sales_order_name, "Cash Received From Client", security_deposit_payment_amount))

\* create_rental_payment_entry: the entries after the insert and submit of
\* a payment entry that references the order.
create_rental_payment_entry(rental_payment_amount, sales_order_name) ==
    Append(tabPaymentEntry, PaymentEntry(sales_order_name, rental_payment_amount))

\* The submit of a payment entry adds the amount allocated to the order to
\* the order's advance_paid.
PaymentEntryOnSubmit(so, allocated_amount) ==
    [so EXCEPT !.advance_paid = so.advance_paid + allocated_amount]

\* process_payment.  created = FALSE is an insert or submit of an entry
\* that raises: the handler throws and the request is rolled back.
process_payment_partial(balance_amount, outstanding_security_deposit_amount, rental_payment_amount, sales_order_name, security_deposit_payment_amount, created) ==
    LET args == PaymentArgs(balance_amount, outstanding_security_deposit_amount,
                            rental_payment_amount, security_deposit_payment_amount)
        error == PaymentError(balance_amount, outstanding_security_deposit_amount,
                              rental_payment_amount, security_deposit_payment_amount)
    IN /\ Exists(sales_order_name)
       /\ security_deposit_payment_amount > 0 => Len(tabJournalEntry) < MaxEntries
       /\ rental_payment_amount > 0 => Len(tabPaymentEntry) < MaxEntries
       /\ IF error # ""
          THEN /\ last' = Request("process_payment", sales_order_name, "error", args)
               /\ UNCHANGED <<tabSalesOrder, ledger>>
          ELSE IF security_deposit_payment_amount = 0 /\ rental_payment_amount = 0
          THEN /\ last' = Request("process_payment", sales_order_name, "False", args)
               /\ UNCHANGED <<tabSalesOrder, ledger>>
          ELSE IF ~created
          THEN /\ last' = Request("process_payment", sales_order_name, "error", args)
               /\ tabJournalEntry' =
                     IF security_deposit_payment_amount > 0
                     THEN create_security_deposit_journal_entry_payment(
                             security_deposit_payment_amount, sales_order_name)
                     ELSE tabJournalEntry
               /\ UNCHANGED <<tabSalesOrder, tabPaymentEntry>>
          ELSE /\ tabJournalEntry' =
                     IF security_deposit_payment_amount > 0
                     THEN create_security_deposit_journal_entry_payment(
                             security_deposit_payment_amount, sales_order_name)
                     ELSE tabJournalEntry
               /\ tabPaymentEntry' =
                     IF rental_payment_amount > 0
                     THEN create_rental_payment_entry(rental_payment_amount, sales_order_name)
                     ELSE tabPaymentEntry
               /\ tabSalesOrder' =
                     IF rental_payment_amount > 0
                     THEN [tabSalesOrder EXCEPT
                              ![sales_order_name] = PaymentEntryOnSubmit(@, rental_payment_amount)]
                     ELSE tabSalesOrder
               /\ last' = Request("process_payment", sales_order_name, "True", args)
       /\ UNCHANGED <<tabSalesOrderItem, tabItem, tabPurchaseOrder>>

process_payment(balance_amount, outstanding_security_deposit_amount, rental_payment_amount, sales_order_name, security_deposit_payment_amount, created) ==
    LET args == PaymentArgs(balance_amount, outstanding_security_deposit_amount,
                            rental_payment_amount, security_deposit_payment_amount)
        error == PaymentError(balance_amount, outstanding_security_deposit_amount,
                              rental_payment_amount, security_deposit_payment_amount)
    IN /\ Exists(sales_order_name)
       /\ security_deposit_payment_amount > 0 => Len(tabJournalEntry) < MaxEntries
       /\ rental_payment_amount > 0 => Len(tabPaymentEntry) < MaxEntries
       /\ IF error # ""
          THEN /\ last' = Request("process_payment", sales_order_name, "error", args)
               /\ UNCHANGED <<tabSalesOrder, ledger>>
          ELSE IF security_deposit_payment_amount = 0 /\ rental_payment_amount = 0
          THEN /\ last' = Request("process_payment", sales_order_name, "False", args)
               /\ UNCHANGED <<tabSalesOrder, ledger>>
          ELSE IF ~created
          THEN /\ last' = Request("process_payment", sales_order_name, "error", args)
               /\ UNCHANGED <<tabSalesOrder, ledger>>
          ELSE /\ tabJournalEntry' =
                     IF security_deposit_payment_amount > 0
                     THEN create_security_deposit_journal_entry_payment(
                             security_deposit_payment_amount, sales_order_name)
                     ELSE tabJournalEntry
               /\ tabPaymentEntry' =
                     IF rental_payment_amount > 0
                     THEN create_rental_payment_entry(rental_payment_amount, sales_order_name)
                     ELSE tabPaymentEntry
               /\ tabSalesOrder' =
                     IF rental_payment_amount > 0
                     THEN [tabSalesOrder EXCEPT
                              ![sales_order_name] = PaymentEntryOnSubmit(@, rental_payment_amount)]
                     ELSE tabSalesOrder
               /\ last' = Request("process_payment", sales_order_name, "True", args)
       /\ UNCHANGED <<tabSalesOrderItem, tabItem, tabPurchaseOrder>>

\* return_security_deposit: the "Return to Client" journal entry is inserted and
\* submitted inside a try block; the except branch logs the exception and
\* returns False, so the request ends normally and whatever was written before
\* the exception is committed (a draft entry when submit() raised).
ReturnAmounts == {500}

FailurePoints == {"", "insert", "submit"}

return_security_deposit(amount_to_return, sales_order_id, failed_at) ==
    /\ Exists(sales_order_id)
    /\ Len(tabJournalEntry) < MaxEntries
    /\ IF failed_at = ""
       THEN /\ tabJournalEntry' =
                  Append(tabJournalEntry,
                         JournalEntry(sales_order_id, "Return to Client", amount_to_return))
            /\ last' = Request("return_security_deposit", sales_order_id, "True", None)
       ELSE /\ tabJournalEntry' =
                  IF failed_at = "submit"
                  THEN Append(tabJournalEntry,
                              [JournalEntry(sales_order_id, "Return to Client", amount_to_return)
                                  EXCEPT !.docstatus = 0])
                  ELSE tabJournalEntry
            /\ last' = Request("return_security_deposit", sales_order_id, "False", "raised")
    /\ UNCHANGED <<tabSalesOrder, tabSalesOrderItem, tabItem, tabPaymentEntry, tabPurchaseOrder>>

NextPayment ==
    \/ \E balance_amount \in BalanceArgs, outstanding_security_deposit_amount \in BalanceArgs,
          rental_payment_amount \in PaymentAmounts, security_deposit_payment_amount \in PaymentAmounts,
          created \in BOOLEAN :
          process_payment(balance_amount, outstanding_security_deposit_amount, rental_payment_amount,
                          "SO-1", security_deposit_payment_amount, created)
    \/ validate_and_update_payment_status("SO-1")
    \/ validate_and_update_payment_and_security_deposit_status("SO-1")
    \/ security_deposit_status("SO-1")
    \/ \E i \in 1..MaxEntries, deleted \in BOOLEAN : cancel_and_delete_journal_entry(i, deleted)

SpecPayment == InitPayment /\ [][NextPayment]_vars

\* The return of the security deposit, with the recomputation of the deposit
\* status and the cancellation of journal entries around it.
NextReturn ==
    \/ \E amount_to_return \in ReturnAmounts, failed_at \in FailurePoints :
          return_security_deposit(amount_to_return, "SO-1", failed_at)
    \/ security_deposit_status("SO-1")
    \/ \E i \in 1..MaxEntries, deleted \in BOOLEAN : cancel_and_delete_journal_entry(i, deleted)

SpecReturn == InitPayment /\ [][NextReturn]_vars

(***************************************************************************)
(* Derived documents: make_delivery_note, make_purchase_order,             *)
(* make_purchase_order_for_default_supplier, create_pick_list and          *)
(* make_material_request.  The order here is submitted (the mapping of     *)
(* every derivation validates docstatus = 1) and its lines carry the       *)
(* quantities; tabItem tells which items are product bundles.  A           *)
(* derivation reads the order and returns a draft, which `last` records;   *)
(* packed items, taxes and the header fields of the draft are not          *)
(* modelled.                                                               *)
(***************************************************************************)
\* qty and rate of an order line; amount is qty * rate.
Qtys == {10}

Rates == {100}

\* delivered_qty of an order line: nothing, a part, all, more than ordered.
DeliveredQtys == {0, 4, 10, 12}

\* ordered_qty of an order line (in stock units): nothing, a part, all.
OrderedQtys == {0, 4, 10}

\* Items that have an enabled Product Bundle.
ProductBundles == {"ITEM-B"}

\* A Sales Order Item row with nothing delivered, ordered, picked or
\* reserved.
SalesOrderItem(name, item_code, qty, rate) ==
    [name |-> name, item_code |-> item_code, qty |-> qty, rate |-> rate,
     amount |-> qty * rate, delivered_qty |-> 0, delivered_by_supplier |-> 0,
     conversion_factor |-> 1, stock_qty |-> qty, ordered_qty |-> 0,
     supplier |-> None, stock_reserved_qty |-> 0, picked_qty |-> 0,
     requested_qty |-> 0, received_qty |-> 0]

\* The result of a derivation that returns no document.
NothingToCreate == [doctype |-> None, items |-> <<>>]

abs(x) == IF x < 0 THEN -x ELSE x

max(x, y) == IF x > y THEN x ELSE y

is_product_bundle(item_code) == tabItem[item_code].product_bundle

\* get_mapped_doc: the rows that pass the condition, each mapped by the
\* postprocess function, in the order of the source rows.  condition and
\* postprocess are given as functions on the rows.
get_mapped_doc(doctype, rows, condition, postprocess) ==
    LET kept == SelectSeq(rows, LAMBDA row : condition[row])
    IN [doctype |-> doctype, items |-> [k \in 1..Len(kept) |-> postprocess[kept[k]]]]

\* The rows of a table, as a set.
Rows(rows) == {rows[i] : i \in DOMAIN rows}

\* The submitted order "SO-1" with the given lines.
InitOrder(items, bundles) ==
    /\ tabSalesOrder = [d \in {"SO-1"} |-> [exists |-> TRUE, docstatus |-> 1]]
    /\ tabSalesOrderItem = [d \in {"SO-1"} |-> items]
    /\ tabItem = [i \in Items |-> [product_bundle |-> i \in bundles]]
    /\ tabJournalEntry = <<>>
    /\ tabPaymentEntry = <<>>
    /\ tabPurchaseOrder = <<>>
    /\ last = Request("new", "SO-1", NothingToCreate, None)

InitDerive ==
    \E n \in 1..MaxLines, bundles \in SUBSET ProductBundles :
       \E qty \in Qtys, rate \in Rates, delivered_qty \in [1..n -> DeliveredQtys],
          delivered_by_supplier \in [1..n -> {0, 1}], ordered_qty \in [1..n -> OrderedQtys] :
          InitOrder([i \in 1..n |->
                       [SalesOrderItem(i, ItemOfLine(i), qty, rate) EXCEPT
                           !.delivered_qty = delivered_qty[i],
                           !.delivered_by_supplier = delivered_by_supplier[i],
                           !.ordered_qty = ordered_qty[i]]],
                    bundles)

\* make_delivery_note, called without the reserved-stock option, without
\* skip_item_mapping and without delivery-date filters.
make_delivery_note_condition_any_supplier(doc) ==
    abs(doc.delivered_qty) < abs(doc.qty)

make_delivery_note_condition(doc) ==
    abs(doc.delivered_qty) < abs(doc.qty) /\ doc.delivered_by_supplier # 1

make_delivery_note_update_item_copied(source) ==
    [so_detail |-> source.name, item_code |-> source.item_code, rate |-> source.rate,
     amount |-> source.amount,
     qty |-> source.qty - source.delivered_qty]

make_delivery_note_update_item(source) ==
    [so_detail |-> source.name, item_code |-> source.item_code, rate |-> source.rate,
     amount |-> (source.qty - source.delivered_qty) * source.rate,
     qty |-> source.qty - source.delivered_qty]

\* What make_delivery_note returns: the draft, or nothing when the draft of
\* a bulk transaction has no items.
DeliveryNote(source_name, bulk_transaction) ==
    LET so_items == tabSalesOrderItem[source_name]
        target_doc ==
           get_mapped_doc("Delivery Note", so_items,
                          [doc \in Rows(so_items) |-> make_delivery_note_condition(doc)],
                          [doc \in Rows(so_items) |-> make_delivery_note_update_item(doc)])
    IN IF bulk_transaction /\ target_doc.items = <<>> THEN NothingToCreate ELSE target_doc

make_delivery_note_consuming(source_name, bulk_transaction) ==
    /\ Exists(source_name)
    /\ last' = Request("make_delivery_note", source_name,
                       DeliveryNote(source_name, bulk_transaction),
                       [bulk_transaction |-> bulk_transaction])
    /\ tabSalesOrderItem' =
          [tabSalesOrderItem EXCEPT
             ![source_name] =
                [i \in DOMAIN tabSalesOrderItem[source_name] |->
                   LET item == tabSalesOrderItem[source_name][i]
                   IN IF make_delivery_note_condition(item)
                      THEN [item EXCEPT !.delivered_qty = item.qty]
                      ELSE item]]
    /\ UNCHANGED <<tabSalesOrder, tabItem, ledger>>

make_delivery_note(source_name, bulk_transaction) ==
    /\ Exists(source_name)
    /\ last' = Request("make_delivery_note", source_name,
                       DeliveryNote(source_name, bulk_transaction),
                       [bulk_transaction |-> bulk_transaction])
    /\ UNCHANGED <<tabSalesOrder, tabSalesOrderItem, tabItem, ledger>>

\* make_purchase_order: items_to_map is the set of item codes of the
\* caller's selected_items; without selected items nothing is returned.
make_purchase_order_condition(doc, items_to_map) ==
    /\ doc.ordered_qty < doc.stock_qty
    /\ doc.item_code \in items_to_map
    /\ ~is_product_bundle(doc.item_code)

make_purchase_order_update_item(source) ==
    [sales_order_item |-> source.name, item_code |-> source.item_code,
     qty |-> source.qty - (source.ordered_qty \div source.conversion_factor),
     stock_qty |-> source.stock_qty - source.ordered_qty]

PurchaseOrder(source_name, items_to_map) ==
    IF items_to_map = {} THEN NothingToCreate
    ELSE LET so_items == tabSalesOrderItem[source_name]
         IN get_mapped_doc(
               "Purchase Order", so_items,
               [doc \in Rows(so_items) |-> make_purchase_order_condition(doc, items_to_map)],
               [doc \in Rows(so_items) |-> make_purchase_order_update_item(doc)])

make_purchase_order(source_name, items_to_map) ==
    /\ Exists(source_name)
    /\ last' = Request("make_purchase_order", source_name,
                       PurchaseOrder(source_name, items_to_map),
                       [items_to_map |-> items_to_map])
    /\ UNCHANGED <<tabSalesOrder, tabSalesOrderItem, tabItem, ledger>>

NextDerive ==
    \/ \E bulk_transaction \in BOOLEAN : make_delivery_note("SO-1", bulk_transaction)
    \/ \E items_to_map \in SUBSET Items : make_purchase_order("SO-1", items_to_map)

SpecDerive == InitDerive /\ [][NextDerive]_vars

\* make_purchase_order_for_default_supplier: one Purchase Order per supplier
\* of the caller's selected_items, each inserted and committed before the
\* next is built.
MaxPurchaseOrders == 2

Suppliers == {"SUPP-1", "SUPP-2"}

\* What the caller's selected_items amount to: the set of their item codes
\* and the list of their suppliers, without duplicates, in their order.
SelectedItems ==
    {[items_to_map |-> {}, suppliers |-> <<>>],
     [items_to_map |-> {"ITEM-A"}, suppliers |-> <<>>],
     [items_to_map |-> {"ITEM-A"}, suppliers |-> <<"SUPP-1">>],
     [items_to_map |-> Items, suppliers |-> <<"SUPP-1">>],
     [items_to_map |-> Items, suppliers |-> <<"SUPP-1", "SUPP-2">>]}

\* The suppliers for which a call cannot build or insert the Purchase Order.
RaisingSuppliers == {{}, {"SUPP-2"}}

InitPurchase ==
    \E n \in 1..MaxLines, bundles \in SUBSET ProductBundles :
       \E qty \in Qtys, rate \in Rates, ordered_qty \in [1..n -> OrderedQtys],
          supplier \in [1..n -> Suppliers] :
          InitOrder([i \in 1..n |->
                       [SalesOrderItem(i, ItemOfLine(i), qty, rate) EXCEPT
                           !.ordered_qty = ordered_qty[i],
                           !.supplier = supplier[i]]],
                    bundles)

default_supplier_condition(doc, supplier, items_to_map) ==
    /\ doc.ordered_qty < doc.stock_qty
    /\ doc.supplier = supplier
    /\ doc.item_code \in items_to_map

\* The draft built for one supplier.
SupplierPurchaseOrder(source_name, supplier, items_to_map) ==
    LET so_items == tabSalesOrderItem[source_name]
        doc == get_mapped_doc(
                  "Purchase Order", so_items,
                  [row \in Rows(so_items) |-> default_supplier_condition(row, supplier, items_to_map)],
                  [row \in Rows(so_items) |-> make_purchase_order_update_item(row)])
    IN [doctype |-> doc.doctype, supplier |-> supplier, items |-> doc.items]

\* The loop over the suppliers.  doc.insert() is called on every draft;
\* whether it raises for a draft without items is decided by the Purchase
\* Order document, outside this file: `mandatory` tells.  Every inserted
\* document is committed at once, so it stays when a later insert raises.
\* `raising` holds the suppliers for which building or inserting the
\* document raises for another reason (no exchange rate, a failed
\* validation).
RECURSIVE InsertLoop(_, _, _, _, _, _, _)
InsertLoop(source_name, suppliers, items_to_map, mandatory, raising, tab, purchase_orders) ==
    IF suppliers = <<>>
    THEN [tab |-> tab, raised |-> FALSE, purchase_orders |-> purchase_orders]
    ELSE LET doc == SupplierPurchaseOrder(source_name, Head(suppliers), items_to_map)
         IN IF (doc.items = <<>> /\ mandatory) \/ Head(suppliers) \in raising
            THEN [tab |-> tab, raised |-> TRUE, purchase_orders |-> <<>>]
            ELSE InsertLoop(source_name, Tail(suppliers), items_to_map, mandatory, raising,
                            Append(tab, doc), Append(purchase_orders, doc))

make_purchase_order_for_default_supplier(source_name, selected_items, mandatory, raising) ==
    LET args == [items_to_map |-> selected_items.items_to_map,
                 suppliers |-> selected_items.suppliers, mandatory |-> mandatory,
                 raising |-> raising]
        loop == InsertLoop(source_name, selected_items.suppliers, selected_items.items_to_map,
                           mandatory, raising, tabPurchaseOrder, <<>>)
    IN /\ Exists(source_name)
       /\ Len(tabPurchaseOrder) + Len(selected_items.suppliers) <= MaxPurchaseOrders
       /\ IF selected_items.items_to_map = {} /\ selected_items.suppliers = <<>>
          THEN /\ last' = Request("make_purchase_order_for_default_supplier", source_name,
                                  [outcome |-> None, purchase_orders |-> <<>>], args)
               /\ UNCHANGED tabPurchaseOrder
          ELSE IF selected_items.suppliers = <<>>
          THEN /\ last' = Request("make_purchase_order_for_default_supplier", source_name,
                                  [outcome |-> "error", purchase_orders |-> <<>>], args)
               /\ UNCHANGED tabPurchaseOrder
          ELSE /\ last' = Request("make_purchase_order_for_default_supplier", source_name,
                                  [outcome |-> IF loop.raised THEN "error" ELSE "list",
                                   purchase_orders |-> loop.purchase_orders], args)
               /\ tabPurchaseOrder' = loop.tab
       /\ UNCHANGED <<tabSalesOrder, tabSalesOrderItem, tabItem, tabJournalEntry, tabPaymentEntry>>

NextPurchase ==
    \/ \E items_to_map \in SUBSET Items : make_purchase_order("SO-1", items_to_map)
    \/ \E selected_items \in SelectedItems, mandatory \in BOOLEAN, raising \in RaisingSuppliers :
          make_purchase_order_for_default_supplier("SO-1", selected_items, mandatory, raising)

SpecPurchase == InitPurchase /\ [][NextPurchase]_vars

\* create_pick_list and make_material_request.  picked_qty is in stock
\* units, requested_qty and received_qty are the sums get_requested_item_qty
\* finds for the line in the submitted Material Requests.
ReservedQtys == {0, 5}

PickedQtys == {0, 30}

ConversionFactors == {1, 2}

RequestedQtys == {0, 12}

InitPick ==
    \E n \in 1..MaxLines, bundles \in SUBSET ProductBundles :
       \E qty \in Qtys, rate \in Rates, stock_reserved_qty \in [1..n -> ReservedQtys],
          picked_qty \in [1..n -> PickedQtys], conversion_factor \in [1..n -> ConversionFactors],
          requested_qty \in [1..n -> RequestedQtys] :
          InitOrder([i \in 1..n |->
                       [SalesOrderItem(i, ItemOfLine(i), qty, rate) EXCEPT
                           !.stock_reserved_qty = stock_reserved_qty[i],
                           !.picked_qty = picked_qty[i],
                           !.conversion_factor = conversion_factor[i],
                           !.stock_qty = qty * conversion_factor[i],
                           !.requested_qty = requested_qty[i]]],
                    bundles)

\* The document a derivation that raised leaves the caller with: none.
Thrown == [doctype |-> "error", items |-> <<>>]

\* validate_sales_order passes when no line has reserved stock.
validate_sales_order_first_line(source_name) ==
    tabSalesOrderItem[source_name][1].stock_reserved_qty <= 0

validate_sales_order(source_name) ==
    \A i \in DOMAIN tabSalesOrderItem[source_name] :
       ~(tabSalesOrderItem[source_name][i].stock_reserved_qty > 0)

update_item_quantity(source) ==
    LET picked_qty == source.picked_qty \div source.conversion_factor
        qty_to_be_picked == source.qty - max(picked_qty, source.delivered_qty)
    IN [sales_order_item |-> source.name, item_code |-> source.item_code,
        qty |-> qty_to_be_picked,
        stock_qty |-> qty_to_be_picked * source.conversion_factor]

should_pick_order_item(item) ==
    /\ abs(item.delivered_qty) < abs(item.qty)
    /\ item.delivered_by_supplier # 1
    /\ ~is_product_bundle(item.item_code)

\* set_item_locations of the Pick List: an enrichment of the assembled
\* draft, which leaves its lines as they were mapped.
set_item_locations(doc) == doc

create_pick_list(source_name) ==
    /\ Exists(source_name)
    /\ last' = Request("create_pick_list", source_name,
                       IF validate_sales_order(source_name)
                       THEN LET so_items == tabSalesOrderItem[source_name]
                            IN set_item_locations(
                                  get_mapped_doc(
                                     "Pick List", so_items,
                                     [item \in Rows(so_items) |-> should_pick_order_item(item)],
                                     [item \in Rows(so_items) |-> update_item_quantity(item)]))
                       ELSE Thrown,
                       None)
    /\ UNCHANGED <<tabSalesOrder, tabSalesOrderItem, tabItem, ledger>>

get_remaining_qty(so_item) ==
    so_item.qty - so_item.requested_qty - max(so_item.delivered_qty - so_item.received_qty, 0)

make_material_request_update_item(source) ==
    [sales_order_item |-> source.name, item_code |-> source.item_code,
     qty |-> get_remaining_qty(source),
     stock_qty |-> get_remaining_qty(source) * source.conversion_factor,
     amount |-> get_remaining_qty(source) * source.rate]

make_material_request_condition(item) ==
    ~is_product_bundle(item.item_code) /\ get_remaining_qty(item) > 0

make_material_request(source_name) ==
    /\ Exists(source_name)
    /\ last' = Request("make_material_request", source_name,
                       LET so_items == tabSalesOrderItem[source_name]
                       IN get_mapped_doc(
                             "Material Request", so_items,
                             [item \in Rows(so_items) |-> make_material_request_condition(item)],
                             [item \in Rows(so_items) |-> make_material_request_update_item(item)]),
                       None)
    /\ UNCHANGED <<tabSalesOrder, tabSalesOrderItem, tabItem, ledger>>

NextPick ==
    \/ create_pick_list("SO-1")
    \/ make_material_request("SO-1")

SpecPick == InitPick /\ [][NextPick]_vars

(***************************************************************************)
(* Header percentages: update_delivery_status and update_picking_status.   *)
(* The order here carries per_delivered and per_picked; tabItem tells      *)
(* which items are stock items and which are product bundles;              *)
(* tabPurchaseOrder holds the drop-ship Purchase Orders with their status. *)
(* Quantities are chosen so that every quotient is a whole number.         *)
(***************************************************************************)
\* qty of an order line whose percentages are recomputed.
LineQtys == {0, 10}

\* delivered_qty and picked_qty of such a line.
FulfilledQtys == {0, 10}

\* per_delivered and per_picked left by an earlier recomputation.
Percentages == {0, 100}

\* Items that are not stock items.
ServiceItems == {"ITEM-B"}

\* A delivered drop-ship Purchase Order for the first order line.
DeliveredPurchaseOrder ==
    [doctype |-> "Purchase Order", supplier |-> "SUPP-1", docstatus |-> 1, status |-> "Delivered",
     items |-> <<[sales_order_item |-> 1, item_code |-> "ITEM-A", qty |-> 10, stock_qty |-> 10]>>]

InitStatus ==
    \E n \in 1..MaxLines, services \in SUBSET ServiceItems, per \in Percentages :
       \E rate \in Rates, qty \in [1..n -> LineQtys], delivered_qty \in [1..n -> FulfilledQtys],
          picked_qty \in [1..n -> FulfilledQtys], delivered_by_supplier \in [1..n -> {0, 1}],
          purchase_orders \in {<<>>, <<DeliveredPurchaseOrder>>} :
          /\ tabSalesOrder =
                [d \in {"SO-1"} |->
                   [exists |-> TRUE, docstatus |-> 1, per_delivered |-> per, per_picked |-> per]]
          /\ tabSalesOrderItem =
                [d \in {"SO-1"} |->
                   [i \in 1..n |->
                      [SalesOrderItem(i, ItemOfLine(i), qty[i], rate) EXCEPT
                          !.delivered_qty = delivered_qty[i],
                          !.picked_qty = picked_qty[i],
                          !.delivered_by_supplier = delivered_by_supplier[i]]]]
          /\ tabItem = [i \in Items |-> [product_bundle |-> FALSE, is_stock_item |-> i \notin services]]
          /\ tabJournalEntry = <<>>
          /\ tabPaymentEntry = <<>>
          /\ tabPurchaseOrder = purchase_orders
          /\ last = Request("new", "SO-1", None, None)

RECURSIVE SumOf(_, _)
SumOf(rows, field) ==
    IF rows = <<>> THEN 0 ELSE Head(rows)[field] + SumOf(Tail(rows), field)

\* select sum(qty) over the items of the submitted, delivered Purchase
\* Orders that reference the order line; no row gives NULL, which flt turns
\* into 0.
RECURSIVE item_delivered_qty(_, _)
item_delivered_qty(purchase_orders, item) ==
    IF purchase_orders = <<>> THEN 0
    ELSE (IF Head(purchase_orders).docstatus = 1 /\ Head(purchase_orders).status = "Delivered"
          THEN SumOf(SelectSeq(Head(purchase_orders).items,
                               LAMBDA poi : /\ poi.sales_order_item = item.name
                                            /\ poi.item_code = item.item_code),
                     "qty")
          ELSE 0)
         + item_delivered_qty(Tail(purchase_orders), item)

update_delivery_status(d) ==
    LET items == [i \in DOMAIN tabSalesOrderItem[d] |->
                    LET item == tabSalesOrderItem[d][i]
                    IN IF item.delivered_by_supplier # 0
                       THEN [item EXCEPT !.delivered_qty = item_delivered_qty(tabPurchaseOrder, item)]
                       ELSE item]
        delivered_qty == SumOf(items, "delivered_qty")
        tot_qty == SumOf(items, "qty")
    IN /\ Exists(d)
       /\ tabSalesOrderItem' = [tabSalesOrderItem EXCEPT ![d] = items]
       /\ tabSalesOrder' =
             IF tot_qty # 0
             THEN [tabSalesOrder EXCEPT ![d].per_delivered = (delivered_qty * 100) \div tot_qty]
             ELSE tabSalesOrder
       /\ last' = Request("update_delivery_status", d, None, None)
       /\ UNCHANGED <<tabItem, ledger>>

\* has_product_bundle of the selling controller: the item has an enabled
\* Product Bundle.
has_product_bundle(item_code) == tabItem[item_code].product_bundle

update_picking_status(d) ==
    LET picked == SelectSeq(tabSalesOrderItem[d],
                            LAMBDA so_item : \/ tabItem[so_item.item_code].is_stock_item
                                             \/ has_product_bundle(so_item.item_code))
        total_picked_qty == SumOf(picked, "picked_qty")
        total_qty == SumOf(picked, "stock_qty")
        per_picked == IF total_picked_qty # 0 /\ total_qty # 0
                      THEN (total_picked_qty * 100) \div total_qty
                      ELSE 0
    IN /\ Exists(d)
       /\ tabSalesOrder' = [tabSalesOrder EXCEPT ![d].per_picked = per_picked]
       /\ last' = Request("update_picking_status", d, None, None)
       /\ UNCHANGED <<tabSalesOrderItem, tabItem, ledger>>

NextStatus ==
    \/ update_delivery_status("SO-1")
    \/ update_picking_status("SO-1")

SpecStatus == InitStatus /\ [][NextStatus]_vars

(***************************************************************************)
(* Two requests at a time: make_rental_device_assign and make_approved for *)
(* two orders and one item.  A handler reads the item's status and writes  *)
(* "Reserved" in separate statements, with no lock and no                  *)
(* "select ... for update" between them, so each call is two steps: the    *)
(* read and the write.  The header of an order carries the request that is *)
(* in flight for it: what it has read, and whether the item was written by *)
(* another request since (stale).  Whether save() of a stale item document *)
(* raises is decided by the document store, outside this file: `detected`  *)
(* tells.  Each order has one line.                                        *)
(***************************************************************************)
ConcurrentOrders == {"SO-1", "SO-2"}

\* No request in flight.
Idle == [pc |-> "idle", item_code |-> None, item_group |-> None, stale |-> FALSE]

InitAssign ==
    /\ tabSalesOrder =
          [d \in ConcurrentOrders |->
             [exists |-> TRUE, status |-> "Draft", item_code |-> None, item_group |-> None,
              request |-> Idle]]
    /\ tabSalesOrderItem = [d \in ConcurrentOrders |-> <<Line("ITEM-A")>>]
    /\ tabItem = [i \in Items |-> "Available"]
    /\ tabJournalEntry = <<>>
    /\ tabPaymentEntry = <<>>
    /\ tabPurchaseOrder = <<>>
    /\ last = Request("new", "SO-1", "ok", None)

\* The headers after the request of order d has written item ic and ended:
\* d gets the header so, and every other request in flight that has read ic
\* holds a stale copy.
Written(d, so, ic) ==
    [e \in ConcurrentOrders |->
       IF e = d THEN [so EXCEPT !.request = Idle]
       ELSE IF tabSalesOrder[e].request.item_code = ic
            THEN [tabSalesOrder[e] EXCEPT !.request.stale = TRUE]
            ELSE tabSalesOrder[e]]

\* make_rental_device_assign up to the test of item_status.
assign_get_value(d, ig, ic) ==
    /\ tabSalesOrder[d].request = Idle
    /\ IF tabItem[ic] = "Available"
       THEN /\ tabSalesOrder' =
                  [tabSalesOrder EXCEPT
                     ![d].request = [pc |-> "make_rental_device_assign", item_code |-> ic,
                                     item_group |-> ig, stale |-> FALSE]]
            /\ UNCHANGED last
       ELSE /\ last' = Request("make_rental_device_assign", d,
                               "Item is not available for reservation.", None)
            /\ UNCHANGED tabSalesOrder
    /\ UNCHANGED <<tabSalesOrderItem, tabItem, ledger>>

\* make_rental_device_assign from item_doc.save() on.
assign_save(d, detected) ==
    LET request == tabSalesOrder[d].request
    IN /\ request.pc = "make_rental_device_assign"
       /\ IF request.stale /\ detected
          THEN /\ tabSalesOrder' = [tabSalesOrder EXCEPT ![d].request = Idle]
               /\ last' = Request("make_rental_device_assign", d, "error", None)
               /\ UNCHANGED tabItem
          ELSE /\ tabItem' = [tabItem EXCEPT ![request.item_code] = "Reserved"]
               /\ tabSalesOrder' =
                     Written(d, [tabSalesOrder[d] EXCEPT !.item_group = request.item_group,
                                                         !.item_code = request.item_code,
                                                         !.status = "Rental Device Assigned"],
                             request.item_code)
               /\ last' = Request("make_rental_device_assign", d,
                                  "Rental Device Assigned Success", None)
       /\ UNCHANGED <<tabSalesOrderItem, ledger>>

\* make_approved up to the test of item_doc.status, for the one line of the
\* order.
approve_get_doc(d) ==
    LET ic == tabSalesOrderItem[d][1].item_code
    IN /\ tabSalesOrder[d].request = Idle
       /\ IF tabItem[ic] = "Available"
          THEN /\ tabSalesOrder' =
                     [tabSalesOrder EXCEPT
                        ![d].request = [pc |-> "make_approved", item_code |-> ic,
                                        item_group |-> None, stale |-> FALSE]]
               /\ UNCHANGED last
          ELSE /\ last' = Request("make_approved", d, "Approved Success", None)
               /\ UNCHANGED tabSalesOrder
       /\ UNCHANGED <<tabSalesOrderItem, tabItem, ledger>>

\* make_approved from item_doc.save() on.
approve_save(d, detected) ==
    LET request == tabSalesOrder[d].request
    IN /\ request.pc = "make_approved"
       /\ IF request.stale /\ detected
          THEN /\ tabSalesOrder' = [tabSalesOrder EXCEPT ![d].request = Idle]
               /\ last' = Request("make_approved", d, "error", None)
               /\ UNCHANGED <<tabItem, tabSalesOrderItem>>
          ELSE /\ tabItem' = [tabItem EXCEPT ![request.item_code] = "Reserved"]
               /\ tabSalesOrderItem' = [tabSalesOrderItem EXCEPT ![d][1].child_status = "Approved"]
               /\ tabSalesOrder' =
                     Written(d, [tabSalesOrder[d] EXCEPT !.status = "Approved"], request.item_code)
               /\ last' = Request("make_approved", d, "Approved Success", None)
       /\ UNCHANGED ledger

NextAssign ==
    \/ \E d \in ConcurrentOrders, ig \in ItemGroups, ic \in Items : assign_get_value(d, ig, ic)
    \/ \E d \in ConcurrentOrders, detected \in BOOLEAN : assign_save(d, detected)
    \/ \E d \in ConcurrentOrders : approve_get_doc(d)
    \/ \E d \in ConcurrentOrders, detected \in BOOLEAN : approve_save(d, detected)

SpecAssign == InitAssign /\ [][NextAssign]_vars

(***************************************************************************)
(* Two orders and the same items: "SO-0" and "SO-1" both exist, and the    *)
(* one line of "SO-0" names the item of the first line of "SO-1".  The     *)
(* handlers are those of the rental life cycle that write Item.status.     *)
(***************************************************************************)
InitShared ==
    /\ \E n \in 1..MaxLines :
          tabSalesOrderItem =
             [d \in DocNames |->
                IF d = "SO-1" THEN [i \in 1..n |-> Line(ItemOfLine(i))] ELSE <<Line(ItemOfLine(1))>>]
    /\ tabSalesOrder =
          [d \in DocNames |->
             [exists |-> TRUE, status |-> "Draft", item_code |-> None, item_group |-> None]]
    /\ tabItem = [i \in Items |-> "Available"]
    /\ last = Request("new", "SO-1", "ok", None)
    /\ tabJournalEntry = <<>>
    /\ tabPaymentEntry = <<>>
    /\ tabPurchaseOrder = <<>>

NextShared ==
    \/ \E d \in Existing : make_delivered(d)
    \/ \E d \in Existing : on_cancel(d)
    \/ \E d \in Existing : on_trash(d)
    \/ \E d \in Existing, item_codes \in SUBSET Items : make_submitted_to_office(d, item_codes)
    \/ \E d \in Existing, n \in 1..MaxLines, ic \in Items : update_status_to_submitted_to_office(ic, d, n)
    \/ \E d \in Existing, ic \in Items, ois \in OldItemStatuses : \E new_item \in Items \ {ic} :
          item_replacement(ic, new_item, d, ois)

SpecShared == InitShared /\ [][NextShared]_vars

(***************************************************************************)
(* process_payment called with amounts above the order's own amounts: the  *)
(* caller passes a payment of 1500 and says that 1500 is outstanding, for  *)
(* an order whose security deposit and rounded_total are at most 1000.     *)
(***************************************************************************)
LargeAmounts == {0, 500, 1500}

LargeBalanceArgs == {500, 1500}

NextOverpay ==
    \E balance_amount \in LargeBalanceArgs, outstanding_security_deposit_amount \in LargeBalanceArgs,
       rental_payment_amount \in LargeAmounts, security_deposit_payment_amount \in LargeAmounts,
       created \in BOOLEAN :
       process_payment(balance_amount, outstanding_security_deposit_amount, rental_payment_amount,
                       "SO-1", security_deposit_payment_amount, created)

SpecOverpay == InitPayment /\ [][NextOverpay]_vars

(***************************************************************************)
(* update_status_to_submitted_to_office followed at once by                *)
(* update_status_to_pickup for the same row and item.  `last.pre` keeps    *)
(* what the pair of calls found: the arguments, the row's child_status,    *)
(* the item's status and the header status.                                *)
(***************************************************************************)
submitted_to_office_then_pickup(ic, d, n) ==
    /\ Exists(d)
    /\ n \in DOMAIN tabSalesOrderItem[d]
    /\ LET db == Pickup(ic, n, SubmittedToOffice(ic, n, Db(d)))
       IN /\ tabItem' = db.item
          /\ tabSalesOrderItem' = [tabSalesOrderItem EXCEPT ![d] = db.lines]
          /\ tabSalesOrder' = [tabSalesOrder EXCEPT ![d] = db.order]
    /\ last' = Request("submitted_to_office_then_pickup", d, "True",
                       [item_code |-> ic, child_name |-> n,
                        child_status |-> tabSalesOrderItem[d][n].child_status,
                        item_status |-> tabItem[ic],
                        status |-> tabSalesOrder[d].status])
    /\ UNCHANGED ledger

NextUndo ==
    \/ \E d \in Existing : make_delivered(d)
    \/ \E d \in Existing : make_pickedup(d)
    \/ \E d \in Existing, n \in 1..MaxLines : update_status_to_picked_up(d, n)
    \/ \E d \in Existing, n \in 1..MaxLines, ic \in Items : update_status_to_submitted_to_office(ic, d, n)
    \/ \E d \in Existing, n \in 1..MaxLines, ic \in Items : submitted_to_office_then_pickup(ic, d, n)

SpecUndo == Init /\ [][NextUndo]_vars

(***************************************************************************)
(* The five derivations that return a draft, on one order:                 *)
(* make_delivery_note, make_sales_invoice, make_material_request,          *)
(* make_purchase_order and create_pick_list.  The lines carry, besides the *)
(* quantities, what make_sales_invoice reads: billed_amt, base_amount      *)
(* (conversion_rate 1) and returned_qty, and the rental child_status.      *)
(***************************************************************************)
PartQtys == {0, 4}

BilledAmts == {0, 400}

InitDrafts ==
    \E n \in 1..MaxLines, bundles \in SUBSET ProductBundles :
       \E qty \in Qtys, rate \in Rates, delivered_qty \in [1..n -> PartQtys],
          picked_qty \in [1..n -> PartQtys], billed_amt \in [1..n -> BilledAmts] :
          InitOrder([i \in 1..n |->
                       [SalesOrderItem(i, ItemOfLine(i), qty, rate) EXCEPT
                           !.delivered_qty = delivered_qty[i],
                           !.picked_qty = picked_qty[i]]
                       @@ [billed_amt |-> billed_amt[i], base_amount |-> qty * rate,
                           returned_qty |-> 0, child_status |-> "Active"]],
                    bundles)

make_sales_invoice_condition(doc) ==
    /\ doc.qty # 0
    /\ doc.base_amount = 0 \/ abs(doc.billed_amt) < abs(doc.amount)

\* update_item of make_sales_invoice.  target.amount / rate is exact for
\* the amounts drawn (multiples of the rate).
make_sales_invoice_update_item(source) ==
    LET amount == source.amount - source.billed_amt
    IN [so_detail |-> source.name, item_code |-> source.item_code,
        amount |-> amount, base_amount |-> amount,
        qty |-> IF source.rate # 0 /\ source.billed_amt # 0
                THEN amount \div source.rate
                ELSE source.qty - source.returned_qty]

\* make_sales_invoice that books the invoiced amount on the order lines.
make_sales_invoice_billing(source_name) ==
    /\ Exists(source_name)
    /\ last' = Request("make_sales_invoice", source_name,
                       LET so_items == tabSalesOrderItem[source_name]
                       IN get_mapped_doc(
                             "Sales Invoice", so_items,
                             [doc \in Rows(so_items) |-> make_sales_invoice_condition(doc)],
                             [doc \in Rows(so_items) |-> make_sales_invoice_update_item(doc)]),
                       None)
    /\ tabSalesOrderItem' =
          [tabSalesOrderItem EXCEPT
             ![source_name] =
                [i \in DOMAIN tabSalesOrderItem[source_name] |->
                   [tabSalesOrderItem[source_name][i] EXCEPT
                      !.billed_amt = tabSalesOrderItem[source_name][i].amount]]]
    /\ UNCHANGED <<tabSalesOrder, tabItem, ledger>>

make_sales_invoice(source_name) ==
    /\ Exists(source_name)
    /\ last' = Request("make_sales_invoice", source_name,
                       LET so_items == tabSalesOrderItem[source_name]
                       IN get_mapped_doc(
                             "Sales Invoice", so_items,
                             [doc \in Rows(so_items) |-> make_sales_invoice_condition(doc)],
                             [doc \in Rows(so_items) |-> make_sales_invoice_update_item(doc)]),
                       None)
    /\ UNCHANGED <<tabSalesOrder, tabSalesOrderItem, tabItem, ledger>>

NextDrafts ==
    \/ \E bulk_transaction \in BOOLEAN : make_delivery_note("SO-1", bulk_transaction)
    \/ make_sales_invoice("SO-1")
    \/ make_material_request("SO-1")
    \/ \E items_to_map \in SUBSET Items : make_purchase_order("SO-1", items_to_map)
    \/ create_pick_list("SO-1")

SpecDrafts == InitDrafts /\ [][NextDrafts]_vars

(***************************************************************************)
(* Properties                                                              *)
(***************************************************************************)
Lines(d) == tabSalesOrderItem[d]

Status(d) == tabSalesOrder[d].status

Served(op) == last.op = op /\ Exists(last.docname)

\* The header vote as the specification states it: lines that are "Ready
\* for Delivery" or "DISPATCHED" do not vote; "Active" when every voting
\* line is "Active", else "Partially Closed" when some line is "Submitted
\* to Office", else "Active".
HeaderVote(lns) ==
    LET voters == {i \in DOMAIN lns : lns[i].child_status \notin {"Ready for Delivery", "DISPATCHED"}}
    IN IF \A i \in voters : lns[i].child_status = "Active" THEN "Active"
       ELSE IF \E i \in DOMAIN lns : lns[i].child_status = "Submitted to Office" THEN "Partially Closed"
       ELSE "Active"

\* The rental chain, by position.
Chain == <<"Approved", "Ready for Delivery", "DISPATCHED", "Active",
           "Ready for Pickup", "Picked Up", "Submitted to Office">>

OnChain(st) == \E k \in DOMAIN Chain : Chain[k] = st

Rank(st) == CHOOSE k \in DOMAIN Chain : Chain[k] = st

\* A line of d whose child_status is earlier in the chain after the step
\* than before it.
MovedBack(d, n) ==
    /\ n \in DOMAIN tabSalesOrderItem[d]
    /\ n \in DOMAIN tabSalesOrderItem'[d]
    /\ OnChain(tabSalesOrderItem[d][n].child_status)
    /\ OnChain(tabSalesOrderItem'[d][n].child_status)
    /\ Rank(tabSalesOrderItem'[d][n].child_status) < Rank(tabSalesOrderItem[d][n].child_status)

\* The child_status each operation writes.
TargetOf(op) ==
    CASE op = "make_approved" -> "Approved"
      [] op = "make_ready_for_delivery" -> "Ready for Delivery"
      [] op = "make_dispatch" -> "DISPATCHED"
      [] op = "make_delivered" -> "Active"
      [] op = "make_ready_for_pickup" -> "Ready for Pickup"
      [] op = "make_pickedup" -> "Picked Up"
      [] op = "update_status_to_ready_for_pickup" -> "Ready for Pickup"
      [] op = "update_status_to_picked_up" -> "Picked Up"
      [] op = "update_status_to_active" -> "Active"
      [] op = "update_status_back_to_ready_for_pickup" -> "Ready for Pickup"
      [] op = "update_status_to_pickup" -> "Picked Up"
      [] op = "item_replacement" -> "Active"
      [] OTHER -> None

\* C1: when on_cancel completes, every item of a line of the order that was
\* "Rented Out" is "Available" and the order is "Cancelled", whatever the
\* statuses were before.
C1_CancelRevertsAndCancels ==
    [][(last'.op = "on_cancel" /\ last'.ret = "ok") =>
         /\ tabSalesOrder'[last'.docname].status = "Cancelled"
         /\ \A n \in DOMAIN tabSalesOrderItem[last'.docname] :
               LET i == tabSalesOrderItem[last'.docname][n].item_code
               IN tabItem[i] = "Rented Out" => tabItem'[i] = "Available"]_vars

\* C1 witness: a cancel has completed on an order with an "Active" line
\* whose item is now "Available".
C1_Witness ==
    /\ Served("on_cancel") /\ last.ret = "ok"
    /\ Status(last.docname) = "Cancelled"
    /\ \E n \in DOMAIN Lines(last.docname) :
          /\ Lines(last.docname)[n].child_status = "Active"
          /\ tabItem[Lines(last.docname)[n].item_code] = "Available"

VoteOps == {"item_replacement", "update_status_to_submitted_to_office", "update_status_to_pickup"}

\* C2 as claimed: after each of the three re-deriving operations on an
\* order with several lines the header is the vote of the lines.
C2_Claimed ==
    (last.op \in VoteOps /\ Exists(last.docname) /\ Len(Lines(last.docname)) > 1)
       => Status(last.docname) = HeaderVote(Lines(last.docname))

\* C2 amended: on an order with several lines, update_status_to_pickup
\* leaves the vote; update_status_to_submitted_to_office leaves "Submitted
\* to Office" when every line is "Submitted to Office" and the vote
\* otherwise; item_replacement leaves the vote when some line votes and the
\* earlier header when none does.
C2_VoteAmended ==
    [][(last'.op \in VoteOps /\ Len(tabSalesOrderItem'[last'.docname]) > 1) =>
         LET d == last'.docname
             lns == tabSalesOrderItem'[d]
         IN tabSalesOrder'[d].status =
              CASE last'.op = "update_status_to_pickup" -> HeaderVote(lns)
                [] last'.op = "update_status_to_submitted_to_office" ->
                     IF \A i \in DOMAIN lns : lns[i].child_status = "Submitted to Office"
                     THEN "Submitted to Office" ELSE HeaderVote(lns)
                [] OTHER ->
                     IF \A i \in DOMAIN lns : lns[i].child_status \in {"Ready for Delivery", "DISPATCHED"}
                     THEN tabSalesOrder[d].status ELSE HeaderVote(lns)]_vars

\* C2 witness: a re-derivation over lines {Active, Submitted to Office}
\* has left "Partially Closed".
C2_Witness ==
    /\ Served("update_status_to_submitted_to_office")
    /\ Len(Lines(last.docname)) = 2
    /\ Lines(last.docname)[1].child_status = "Active"
    /\ Lines(last.docname)[2].child_status = "Submitted to Office"
    /\ Status(last.docname) = "Partially Closed"

SingleLineOps == {"make_ready_for_delivery", "make_dispatch", "make_delivered",
                  "make_ready_for_pickup", "make_pickedup", "make_submitted_to_office",
                  "update_status_to_ready_for_pickup", "update_status_to_picked_up",
                  "update_status_to_submitted_to_office", "update_status_to_active",
                  "update_status_back_to_ready_for_pickup", "update_status_to_pickup",
                  "item_replacement"}

\* C3: after any rental status operation on an order with exactly one
\* line, the header status equals that line's child_status.
C3_SingleLineMirror ==
    (last.op \in SingleLineOps /\ Exists(last.docname) /\ Len(Lines(last.docname)) = 1)
       => Status(last.docname) = Lines(last.docname)[1].child_status

LineOps == {"update_status_to_ready_for_pickup", "update_status_to_picked_up",
            "update_status_to_active", "update_status_back_to_ready_for_pickup"}

\* C4 as claimed: after every operation that changes a line of an order
\* with several lines, the header is the vote of the lines.
C4_Claimed ==
    (last.op \in (LineOps \cup VoteOps) /\ Exists(last.docname) /\ Len(Lines(last.docname)) > 1)
       => Status(last.docname) = HeaderVote(Lines(last.docname))

\* C4 amended: on an order with several lines, the four line-only
\* operations leave the header status as it was.
C4_LineOpsKeepHeader ==
    [][(last'.op \in LineOps /\ Len(tabSalesOrderItem'[last'.docname]) > 1) =>
         tabSalesOrder'[last'.docname].status = tabSalesOrder[last'.docname].status]_vars

\* C4 witness: update_status_to_picked_up has acted on a line of a
\* two-line order whose header still reads "Ready for Pickup", which is
\* not the vote of its lines.
C4_Witness ==
    /\ Served("update_status_to_picked_up")
    /\ Len(Lines(last.docname)) = 2
    /\ \E n \in 1..2 : Lines(last.docname)[n].child_status = "Picked Up"
    /\ Status(last.docname) = "Ready for Pickup"
    /\ Status(last.docname) # HeaderVote(Lines(last.docname))

\* C5 as claimed: a child_status moves backwards along the chain only in
\* item_replacement or cancel.
C5_Claimed ==
    [][\A d \in DocNames, n \in 1..MaxLines :
          MovedBack(d, n) => last'.op \in {"item_replacement", "on_cancel"}]_vars

\* C5 amended: a child_status moves backwards along the chain only to the
\* fixed target of the operation that is performed; cancel, on_hold,
\* close_rental_order, update_status and make_rental_device_assign move
\* no line.
C5_BackOnlyToTarget ==
    [][\A d \in DocNames, n \in 1..MaxLines :
          MovedBack(d, n) =>
             /\ d = last'.docname
             /\ tabSalesOrderItem'[d][n].child_status = TargetOf(last'.op)]_vars

\* C5 witness: update_status_back_to_ready_for_pickup has put one line of
\* a picked-up two-line order back to "Ready for Pickup".
C5_Witness ==
    /\ Served("update_status_back_to_ready_for_pickup")
    /\ Len(Lines(last.docname)) = 2
    /\ Status(last.docname) = "Picked Up"
    /\ Lines(last.docname)[1].child_status = "Ready for Pickup"
    /\ Lines(last.docname)[2].child_status = "Picked Up"

\* C6 as claimed: make_pickedup on an order that is not "Ready for Pickup"
\* and make_dispatch on a "Closed" order are rejected.
C6_Claimed ==
    /\ (Served("make_pickedup") /\ last.pre # "Ready for Pickup") => last.ret = "error"
    /\ (Served("make_dispatch") /\ last.pre = "Closed") => last.ret = "error"

\* C6 amended: make_dispatch, make_pickedup and update_status do not look
\* at the current status: whatever it is, they succeed and leave their
\* target status.
C6_NoTransitionCheck ==
    [][/\ last'.op = "make_pickedup" =>
            /\ last'.ret # "error"
            /\ last'.pre = tabSalesOrder[last'.docname].status
            /\ tabSalesOrder'[last'.docname].status = "Picked Up"
       /\ last'.op = "make_dispatch" =>
            /\ last'.ret # "error"
            /\ last'.pre = tabSalesOrder[last'.docname].status
            /\ tabSalesOrder'[last'.docname].status = "DISPATCHED"
       /\ last'.op = "update_status" =>
            /\ last'.ret # "error"
            /\ tabSalesOrder'[last'.docname].status \in NewStatuses]_vars

\* C6 witness: make_pickedup has succeeded on an order that was still
\* "Draft".
C6_Witness ==
    /\ Served("make_pickedup")
    /\ last.pre = "Draft"
    /\ last.ret # "error"
    /\ Status(last.docname) = "Picked Up"

\* C7: after make_approved returns "Approved Success", every line's item is
\* "Reserved" and every line is "Approved".
C7_ApprovedAll ==
    (Served("make_approved") /\ last.ret = "Approved Success") =>
       \A n \in DOMAIN Lines(last.docname) :
          /\ tabItem[Lines(last.docname)[n].item_code] = "Reserved"
          /\ Lines(last.docname)[n].child_status = "Approved"

\* C8: make_rental_device_assign for an item that is not "Available"
\* reports an error and changes neither the item nor the order.
C8_AssignUnavailableNoChange ==
    [][\A ic \in AssignItems :
          (last'.op = "make_rental_device_assign" /\ tabItem[ic] # "Available") =>
             /\ last'.ret # "Rental Device Assigned Success"
             /\ tabItem' = tabItem
             /\ tabSalesOrder' = tabSalesOrder]_vars

\* C9: when the order save of make_rental_device_assign fails, the handler
\* raises, the item it reserved stays "Reserved" and the order is as it
\* was.
C9_ReservedWithoutAssignment ==
    [][\A ic \in AssignItems :
          (last'.op = "make_rental_device_assign" /\ last'.ret = "error"
             /\ tabSalesOrder[last'.docname].exists) =>
             /\ tabItem[ic] = "Available"
             /\ tabItem'[ic] = "Reserved"
             /\ tabSalesOrder' = tabSalesOrder]_vars

\* C9 witness: the item is "Reserved" by a failed assignment and the order
\* is not "Rental Device Assigned".
C9_Witness ==
    /\ Served("make_rental_device_assign")
    /\ last.ret = "error"
    /\ \A ic \in AssignItems : tabItem[ic] = "Reserved"
    /\ Status(last.docname) # "Rental Device Assigned"
    /\ tabSalesOrder[last.docname].item_code = None

HeaderOps == {"make_ready_for_delivery", "make_dispatch", "make_ready_for_pickup", "make_pickedup"}

\* C10: when make_ready_for_delivery, make_dispatch, make_ready_for_pickup
\* or make_pickedup has completed, the order status and every line's
\* child_status equal the operation's target.
C10_HeaderOpsSetAll ==
    (last.op \in HeaderOps /\ Exists(last.docname)) =>
       /\ Status(last.docname) = TargetOf(last.op)
       /\ \A n \in DOMAIN Lines(last.docname) :
             Lines(last.docname)[n].child_status = TargetOf(last.op)

\* C10 witness: make_dispatch has completed on a two-line order.
C10_Witness ==
    /\ Served("make_dispatch")
    /\ Len(Lines(last.docname)) = 2
    /\ Status(last.docname) = "DISPATCHED"
    /\ \A n \in 1..2 : Lines(last.docname)[n].child_status = "DISPATCHED"

\* C11: when make_delivered has completed, every item of a line of the
\* order is "Rented Out", the order is "Active" and every line is "Active".
C11_DeliveredAll ==
    Served("make_delivered") =>
       /\ Status(last.docname) = "Active"
       /\ \A n \in DOMAIN Lines(last.docname) :
             /\ Lines(last.docname)[n].child_status = "Active"
             /\ tabItem[Lines(last.docname)[n].item_code] = "Rented Out"

\* C11 witness: make_delivered has completed on a two-line order and both
\* items are "Rented Out".
C11_Witness ==
    /\ Served("make_delivered")
    /\ Len(Lines(last.docname)) = 2
    /\ Status(last.docname) = "Active"
    /\ tabItem["ITEM-A"] = "Rented Out"
    /\ tabItem["ITEM-B"] = "Rented Out"

\* C12: when make_submitted_to_office has completed, the item of every
\* line of the order is "Available" and every line is "Submitted to
\* Office".
C12_SubmittedAll ==
    Served("make_submitted_to_office") =>
       \A n \in DOMAIN Lines(last.docname) :
          /\ Lines(last.docname)[n].child_status = "Submitted to Office"
          /\ tabItem[Lines(last.docname)[n].item_code] = "Available"

\* C16: a cancel of a "Closed" order fails and changes nothing: the items
\* and the order are as they were before it.
C16_ClosedCancelNoChange ==
    [][(last'.op = "on_cancel" /\ tabSalesOrder[last'.docname].status = "Closed") =>
         /\ last'.ret = "error"
         /\ tabItem' = tabItem
         /\ tabSalesOrder' = tabSalesOrder
         /\ tabSalesOrderItem' = tabSalesOrderItem]_vars

\* The renewal whose submission the step is, and its predecessor.
Renewal == tabSalesOrder[last'.docname]

Predecessor == tabSalesOrder[Renewal.previous_order_id]

IsRenewalSubmit == last'.op = "submit" /\ Renewal.previous_order_id # None

OverlapError == "Current start and end dates overlap with the previous order."

\* The days of the interval [start_date, end_date] of an order.
Interval(o) == {t \in Days : o.start_date <= t /\ t <= o.end_date}

HasDates(o) == o.start_date # NoDate /\ o.end_date # NoDate

C14_Claimed ==
    [][(IsRenewalSubmit /\ HasDates(Renewal) /\ HasDates(Predecessor)) =>
         (last'.ret = OverlapError <=> Interval(Renewal) \cap Interval(Predecessor) = {})]_vars

\* C14 amended: the submission of a renewal whose interval overlaps the
\* predecessor's (bounds inclusive) fails with the date-overlap error and
\* changes nothing, and one whose interval does not overlap it passes the
\* guard.
C14_OverlapRejected ==
    [][(IsRenewalSubmit /\ HasDates(Renewal) /\ HasDates(Predecessor)) =>
         /\ last'.ret = OverlapError <=> Interval(Renewal) \cap Interval(Predecessor) # {}
         /\ last'.ret = OverlapError =>
               /\ tabSalesOrder' = tabSalesOrder
               /\ tabSalesOrderItem' = tabSalesOrderItem]_vars

\* C14 witness: a renewal that starts the day its predecessor ends has been
\* rejected with the date-overlap error.
C14_Witness ==
    /\ last.op = "submit" /\ last.ret = OverlapError
    /\ tabSalesOrder[last.docname].previous_order_id = "SO-1"
    /\ tabSalesOrder[last.docname].docstatus = 0
    /\ HasDates(tabSalesOrder["SO-1"])
    /\ tabSalesOrder[last.docname].start_date = tabSalesOrder["SO-1"].end_date
    /\ tabSalesOrder[last.docname].end_date > tabSalesOrder["SO-1"].end_date

\* C15: the submission of a renewal fails with the date-overlap error
\* exactly when the renewal has both dates, start_date <= the predecessor's
\* end_date and end_date >= the predecessor's start_date; a renewal with a
\* missing start_date or end_date is never rejected by the guard.
C15_GuardExact ==
    [][IsRenewalSubmit =>
         /\ last'.ret = OverlapError <=>
               /\ HasDates(Renewal)
               /\ HasDates(Predecessor)
               /\ Renewal.start_date <= Predecessor.end_date
               /\ Renewal.end_date >= Predecessor.start_date
         /\ ~HasDates(Renewal) => last'.ret \in {"ok", "error"}]_vars

\* C15 witness: a renewal without an end_date has been submitted although
\* its start_date lies inside the predecessor's interval.
C15_Witness ==
    /\ last.op = "submit" /\ last.ret = "ok"
    /\ tabSalesOrder[last.docname].previous_order_id = "SO-1"
    /\ tabSalesOrder[last.docname].end_date = NoDate
    /\ tabSalesOrder[last.docname].start_date # NoDate
    /\ HasDates(tabSalesOrder["SO-1"])
    /\ tabSalesOrder[last.docname].start_date \in Interval(tabSalesOrder["SO-1"])

ValidateOps == {"validate_and_update_payment_status",
                "validate_and_update_payment_and_security_deposit_status"}

DepositOps == {"security_deposit_status",
               "validate_and_update_payment_and_security_deposit_status"}

\* C17: when validate_and_update_payment_status, or the payment part of
\* validate_and_update_payment_and_security_deposit_status, has run,
\* balance_amount is rounded_total - advance_paid and payment_status is
\* "Paid" when that outstanding is 0, "UnPaid" when it is not 0 and
\* advance_paid is 0, and "Partially Paid" otherwise.
C17_PaymentClassified ==
    (last.op \in ValidateOps) =>
       LET so == tabSalesOrder[last.docname]
           outstanding == so.rounded_total - so.advance_paid
       IN /\ so.balance_amount = outstanding
          /\ so.payment_status =
                IF outstanding = 0 THEN "Paid"
                ELSE IF so.advance_paid = 0 THEN "UnPaid"
                ELSE "Partially Paid"

\* C17 witness: the recomputation has run at the boundary advance_paid =
\* rounded_total = 1000 and left balance_amount 0 and "Paid".
C17_Witness ==
    /\ last.op \in ValidateOps
    /\ tabSalesOrder[last.docname].rounded_total = 1000
    /\ tabSalesOrder[last.docname].advance_paid = 1000
    /\ tabSalesOrder[last.docname].balance_amount = 0
    /\ tabSalesOrder[last.docname].payment_status = "Paid"

\* The sum of the order's "Cash Received From Client" journal entries that
\* are not cancelled.
RECURSIVE PaidDeposit(_, _)
PaidDeposit(entries, docname) ==
    IF entries = <<>> THEN 0
    ELSE (IF /\ Head(entries).sales_order_id = docname
             /\ Head(entries).security_deposite_type = "Cash Received From Client"
             /\ Head(entries).docstatus # 2
          THEN Head(entries).total_debit ELSE 0)
         + PaidDeposit(Tail(entries), docname)

\* C18: when security_deposit_status (or the deposit part of the combined
\* recomputation) has run, the paid deposit is the sum of the order's
\* non-cancelled "Cash Received From Client" journal entries, the
\* outstanding deposit is security_deposit minus that sum, and the status
\* is "Paid" when the outstanding is 0, "Unpaid" when nothing is paid and
\* "Partially Paid" otherwise.
C18_DepositFromLiveEntries ==
    (last.op \in DepositOps) =>
       LET so == tabSalesOrder[last.docname]
           paid == PaidDeposit(tabJournalEntry, last.docname)
       IN /\ so.paid_security_deposite_amount = paid
          /\ so.outstanding_security_deposit_amount = so.security_deposit - paid
          /\ so.security_deposit_status =
                IF so.security_deposit - paid = 0 THEN "Paid"
                ELSE IF paid = 0 THEN "Unpaid"
                ELSE "Partially Paid"

\* The calls C19 is about: a negative amount, a deposit amount above the
\* outstanding security deposit, or a rental amount above the balance.
Rejectable(args) ==
    \/ args.rental_payment_amount < 0
    \/ args.security_deposit_payment_amount < 0
    \/ args.security_deposit_payment_amount > args.outstanding_security_deposit_amount
    \/ args.rental_payment_amount > args.balance_amount

\* C19: process_payment rejects with an error, and creates no journal
\* entry and no payment entry, every call in which an amount is negative,
\* the deposit amount exceeds the outstanding security deposit, or the
\* rental amount exceeds the balance amount.
C19_PaymentRejected ==
    [][(last'.op = "process_payment" /\ Rejectable(last'.pre)) =>
         /\ last'.ret = "error"
         /\ tabJournalEntry' = tabJournalEntry
         /\ tabPaymentEntry' = tabPaymentEntry
         /\ tabSalesOrder' = tabSalesOrder]_vars

\* C19 witness: a call paying both a deposit and a rental amount above the
\* balance has been rejected.
C19_Witness ==
    /\ last.op = "process_payment"
    /\ last.ret = "error"
    /\ last.pre.security_deposit_payment_amount > 0
    /\ last.pre.security_deposit_payment_amount <= last.pre.outstanding_security_deposit_amount
    /\ last.pre.rental_payment_amount > last.pre.balance_amount
    /\ last.pre.balance_amount >= 0

\* The rental amount paid so far: the sum of the order's submitted payment
\* entries.
RECURSIVE PaidRental(_, _)
PaidRental(entries, docname) ==
    IF entries = <<>> THEN 0
    ELSE (IF Head(entries).reference_name = docname /\ Head(entries).docstatus = 1
          THEN Head(entries).paid_amount ELSE 0)
         + PaidRental(Tail(entries), docname)

\* The payment_status that reflects the amount paid so far.
StatusOfPaid(rounded_total, paid) ==
    IF paid = rounded_total THEN "Paid"
    ELSE IF paid = 0 THEN "UnPaid"
    ELSE "Partially Paid"

\* C20: after every successful process_payment the order's payment_status
\* reflects the amount paid so far ("Partially Paid" after 500 of 1000,
\* "Paid" after a further 500).
C20_StatusReflectsPaid ==
    (last.op = "process_payment" /\ last.ret = "True") =>
       tabSalesOrder[last.docname].payment_status =
          StatusOfPaid(tabSalesOrder[last.docname].rounded_total,
                       PaidRental(tabPaymentEntry, last.docname))

\* C21: when the creation of the journal entry or of the payment entry fails
\* inside process_payment, the call reports an error, payment_status and
\* security_deposit_status keep the values they had before the call, and no
\* ledger entry of the failed payment remains.
C21_FailedCreationLeavesStatus ==
    [][(last'.op = "process_payment" /\ ~Rejectable(last'.pre)
          /\ last'.ret \notin {"True", "False"}) =>
         /\ last'.ret = "error"
         /\ tabSalesOrder'[last'.docname].payment_status =
               tabSalesOrder[last'.docname].payment_status
         /\ tabSalesOrder'[last'.docname].security_deposit_status =
               tabSalesOrder[last'.docname].security_deposit_status
         /\ tabSalesOrder'[last'.docname].advance_paid =
               tabSalesOrder[last'.docname].advance_paid
         /\ tabJournalEntry' = tabJournalEntry
         /\ tabPaymentEntry' = tabPaymentEntry]_vars

\* C21 witness: a call paying a deposit and a rental amount, both within
\* their limits, has failed while its entries were created.
C21_Witness ==
    /\ last.op = "process_payment"
    /\ last.ret = "error"
    /\ ~Rejectable(last.pre)
    /\ last.pre.security_deposit_payment_amount > 0
    /\ last.pre.rental_payment_amount > 0

\* The handlers that catch every exception of their body.
CatchingOps ==
    {"return_security_deposit", "update_status_to_submitted_to_office", "update_status_to_pickup"}

\* C22: a failure is reported as an error, never swallowed: when
\* return_security_deposit fails to create the "Return to Client" journal
\* entry, or update_status_to_submitted_to_office or update_status_to_pickup
\* hits an exception part-way, the caller receives an error outcome, not a
\* normal return value.
C22_FailureReported ==
    (last.op \in CatchingOps /\ last.pre = "raised") => last.ret = "error"

\* The order line a derived Delivery Note line was mapped from.
SourceOf(d, item) == Lines(d)[item.so_detail]

\* C23: make_delivery_note (no reserved-stock option, no delivery-date
\* filters) includes an order line in the Delivery Note if and only if
\* |delivered_qty| < |qty| and the line is not delivered by the supplier.
C23_DeliveryNoteLines ==
    last.op = "make_delivery_note" =>
       \A i \in DOMAIN Lines(last.docname) :
          (\E k \in DOMAIN last.ret.items :
              last.ret.items[k].so_detail = Lines(last.docname)[i].name)
          <=> /\ abs(Lines(last.docname)[i].delivered_qty) < abs(Lines(last.docname)[i].qty)
              /\ Lines(last.docname)[i].delivered_by_supplier # 1

\* C23 witness: a Delivery Note was derived that includes one line and
\* leaves out an undelivered line which the supplier delivers.
C23_Witness ==
    /\ last.op = "make_delivery_note"
    /\ Len(last.ret.items) = 1
    /\ \E i \in DOMAIN Lines(last.docname) :
          /\ Lines(last.docname)[i].delivered_qty < Lines(last.docname)[i].qty
          /\ Lines(last.docname)[i].delivered_by_supplier = 1

C25_NothingWhenAllDelivered ==
    (/\ last.op = "make_delivery_note"
     /\ \A i \in DOMAIN Lines(last.docname) :
           Lines(last.docname)[i].delivered_qty >= Lines(last.docname)[i].qty)
    => last.ret = NothingToCreate

\* What the derivation served last returns when it is called again with the
\* same arguments.
DerivedAgain ==
    IF last.op = "make_delivery_note"
    THEN DeliveryNote(last.docname, last.pre.bulk_transaction)
    ELSE PurchaseOrder(last.docname, last.pre.items_to_map)

DraftOps == {"make_delivery_note", "make_purchase_order"}

\* C26 as claimed: after a derivation, the same derivation called again,
\* with no change to the delivered or ordered quantities in between,
\* yields no document.
C26_Claimed ==
    last.op \in DraftOps => DerivedAgain = NothingToCreate

\* C26: a derivation does not change the order, so the same derivation
\* called again, with no change to the delivered or ordered quantities in
\* between, yields the same draft as the first call.
C26_SameDraftAgain ==
    last.op \in DraftOps =>
       /\ DerivedAgain = last.ret
       /\ last.ret.items # <<>> => DerivedAgain # NothingToCreate

\* C26 witness: a Delivery Note with a line was derived.
C26_Witness ==
    /\ last.op = "make_delivery_note"
    /\ last.ret.items # <<>>
    /\ DerivedAgain.items # <<>>

IncludedLines ==
    IF last.op = "make_purchase_order"
    THEN {last.ret.items[k].sales_order_item : k \in DOMAIN last.ret.items}
    ELSE UNION {{last.ret.purchase_orders[j].items[k].sales_order_item :
                    k \in DOMAIN last.ret.purchase_orders[j].items} :
                j \in DOMAIN last.ret.purchase_orders}

PurchaseOps == {"make_purchase_order", "make_purchase_order_for_default_supplier"}

\* The order lines the caller can select: every line for make_purchase_order,
\* the lines of the selected suppliers for
\* make_purchase_order_for_default_supplier.
SelectableLines ==
    {i \in DOMAIN Lines(last.docname) :
        last.op = "make_purchase_order_for_default_supplier" =>
           \E j \in DOMAIN last.pre.suppliers :
              Lines(last.docname)[i].supplier = last.pre.suppliers[j]}

\* C30: both Purchase Order derivations include an order line if and only
\* if ordered_qty < stock_qty, the line's item_code is in the caller-selected
\* set, and the item is not a product bundle parent.
C30_PurchaseOrderLines ==
    (/\ last.op \in PurchaseOps
     /\ last.op = "make_purchase_order_for_default_supplier" => last.ret.outcome = "list")
    => \A i \in SelectableLines :
          Lines(last.docname)[i].name \in IncludedLines
          <=> /\ Lines(last.docname)[i].ordered_qty < Lines(last.docname)[i].stock_qty
              /\ Lines(last.docname)[i].item_code \in last.pre.items_to_map
              /\ ~is_product_bundle(Lines(last.docname)[i].item_code)

\* C28: create_pick_list on an order with a line of stock_reserved_qty > 0
\* fails before any Pick List line is built and returns no draft; and a
\* Pick List that is produced has no line of an order line whose item is a
\* product bundle parent.
C28_PickListGuards ==
    last.op = "create_pick_list" =>
       /\ (\E i \in DOMAIN Lines(last.docname) : Lines(last.docname)[i].stock_reserved_qty > 0)
             => last.ret = Thrown
       /\ \A k \in DOMAIN last.ret.items : ~is_product_bundle(last.ret.items[k].item_code)

\* C28 witness: create_pick_list has failed on an order whose second line
\* alone has reserved stock, while the first line could be picked.
C28_Witness ==
    /\ last.op = "create_pick_list"
    /\ last.ret = Thrown
    /\ Len(Lines(last.docname)) = 2
    /\ Lines(last.docname)[1].stock_reserved_qty = 0
    /\ should_pick_order_item(Lines(last.docname)[1])
    /\ Lines(last.docname)[2].stock_reserved_qty > 0

\* C29: the remaining quantity of a derived line is never negative:
\* create_pick_list gives no line a qty < 0, even when picked_qty /
\* conversion_factor exceeds the line's qty, and make_material_request gives
\* no line a qty < 0.
C29_RemainingNotNegative ==
    last.op \in {"create_pick_list", "make_material_request"} =>
       \A k \in DOMAIN last.ret.items : last.ret.items[k].qty >= 0

\* The lines that qualify for the header percentages: those of stock items
\* and of product bundles.
Qualifying(d) ==
    SelectSeq(Lines(d), LAMBDA so_item : \/ tabItem[so_item.item_code].is_stock_item
                                         \/ has_product_bundle(so_item.item_code))

Percentage(fulfilled, requested) ==
    IF requested = 0 THEN 0 ELSE (fulfilled * 100) \div requested

\* C31: update_delivery_status and update_picking_status set per_delivered
\* and per_picked to 100 times the sum of the fulfilled quantities divided
\* by the sum of the requested quantities over the qualifying lines, and to
\* 0 when the sum of the requested quantities is 0; a one-line order
\* delivered in full gets per_delivered 100.
C31_HeaderPercentages ==
    /\ last.op = "update_delivery_status" =>
          tabSalesOrder[last.docname].per_delivered =
             Percentage(SumOf(Qualifying(last.docname), "delivered_qty"),
                        SumOf(Qualifying(last.docname), "qty"))
    /\ last.op = "update_picking_status" =>
          tabSalesOrder[last.docname].per_picked =
             Percentage(SumOf(Qualifying(last.docname), "picked_qty"),
                        SumOf(Qualifying(last.docname), "stock_qty"))

\* C32: a derivation call is all-or-nothing: when
\* make_purchase_order_for_default_supplier fails while it builds or inserts
\* the Purchase Order of one supplier, no Purchase Order that the call
\* created for an earlier supplier remains persisted.
C32_AllOrNothing ==
    [][(/\ last'.op = "make_purchase_order_for_default_supplier"
        /\ last'.ret.outcome = "error")
       => tabPurchaseOrder' = tabPurchaseOrder]_vars

\* The order holds the item: it is "Rental Device Assigned" with the item,
\* or "Approved" with a line of the item.
Holds(d, ic) ==
    \/ tabSalesOrder[d].status = "Rental Device Assigned" /\ tabSalesOrder[d].item_code = ic
    \/ /\ tabSalesOrder[d].status = "Approved"
       /\ \E i \in DOMAIN Lines(d) : Lines(d)[i].item_code = ic

\* C33: a physical item is assigned to at most one order: when two
\* make_rental_device_assign (or make_approved) calls for two different
\* orders and the same Available item interleave, at most one of them ends
\* with its order "Rental Device Assigned" (or "Approved").
C33_AtMostOneOrder ==
    \A d1, d2 \in ConcurrentOrders, ic \in Items :
       (Holds(d1, ic) /\ Holds(d2, ic)) => d1 = d2

\* C34: in every reachable state, a line with child_status "Active" on an
\* order that is not cancelled references an item whose status is
\* "Rented Out", whatever is done to another order that names the item.
C34_ActiveLineRentedOut ==
    \A d \in Existing :
       tabSalesOrder[d].status # "Cancelled" =>
          \A i \in DOMAIN Lines(d) :
             Lines(d)[i].child_status = "Active" => tabItem[Lines(d)[i].item_code] = "Rented Out"

\* C35: over any sequence of successful process_payment calls for one
\* order, the "Cash Received From Client" journal entries created for it
\* never add up to more than the order's security deposit, and its rental
\* payments never to more than its rounded_total, whatever balance_amount
\* and outstanding_security_deposit_amount the callers pass.
C35_PaymentsWithinAmounts ==
    \A d \in DOMAIN tabSalesOrder :
       /\ PaidDeposit(tabJournalEntry, d) <= tabSalesOrder[d].security_deposit
       /\ PaidRental(tabPaymentEntry, d) <= tabSalesOrder[d].rounded_total

\* C36: when some line's item is not Available, make_approved does not set
\* the order to "Approved" and leaves no line and no item changed; so the
\* order is "Approved" after the call only if every line is "Approved" and
\* every line's item "Reserved".
C36_ApprovedAllOrNothing ==
    [][(/\ last'.op = "make_approved"
        /\ \E i \in DOMAIN Lines(last'.docname) :
              tabItem[Lines(last'.docname)[i].item_code] # "Available") =>
         /\ tabSalesOrder' = tabSalesOrder
         /\ tabSalesOrderItem' = tabSalesOrderItem
         /\ tabItem' = tabItem]_vars

\* What C37 says of the line i that a step of item_replacement on order d
\* has given another item: X is the item the line held, Y the one it holds.
Replaced(d, i) ==
    LET X == tabSalesOrderItem[d][i].item_code
        Y == tabSalesOrderItem'[d][i].item_code
        was == tabSalesOrderItem[d][i].child_status
    IN /\ \A j \in DOMAIN tabSalesOrderItem[d] :
             tabSalesOrderItem[d][j].item_code = X =>
                /\ tabSalesOrderItem'[d][j].item_code = Y
                /\ tabSalesOrderItem'[d][j].old_item_code = X
       /\ tabSalesOrderItem'[d][i].child_status = (IF was = "Picked Up" THEN "Active" ELSE was)
       /\ tabItem'[Y] \in {"Rented Out", "Reserved"}
       /\ tabItem'[X] \in OldItemStatuses
       /\ tabItem[Y] = "Available"

\* C37: item_replacement of X by Y gives every line holding X the
\* item_code Y and the old_item_code X, turns a "Picked Up" line "Active"
\* (Y "Rented Out") and keeps any other child_status (Y "Reserved"), gives
\* X the caller's old_item_status, and is performed only if Y was
\* "Available" before the call.
C37_ReplacementOnlyByAvailable ==
    [][last'.op = "item_replacement" =>
         \A i \in DOMAIN tabSalesOrderItem[last'.docname] :
            tabSalesOrderItem'[last'.docname][i].item_code # tabSalesOrderItem[last'.docname][i].item_code
               => Replaced(last'.docname, i)]_vars

\* The pair of calls C38 is about has just been made: for a row that was
\* "Picked Up" and whose item, the one named in both calls, was
\* "Rented Out".
UndoCase ==
    /\ last.op = "submitted_to_office_then_pickup"
    /\ last.pre.child_status = "Picked Up"
    /\ last.pre.item_status = "Rented Out"
    /\ Lines(last.docname)[last.pre.child_name].item_code = last.pre.item_code

\* C38 as claimed: update_status_to_submitted_to_office and then
\* update_status_to_pickup on the same line restore the line's
\* child_status, the item's status and the order's header status, for
\* single-line and multi-line orders.
C38_Claimed ==
    UndoCase =>
       /\ Lines(last.docname)[last.pre.child_name].child_status = last.pre.child_status
       /\ tabItem[last.pre.item_code] = last.pre.item_status
       /\ tabSalesOrder[last.docname].status = last.pre.status

\* C38 amended: the pair restores the line's child_status and the item's
\* status; the header is not restored but set: "Picked Up" for an order
\* with one line, and for an order with several lines "Partially Closed"
\* when some line is "Submitted to Office", "Active" otherwise.
C38_UndoLineAndItem ==
    UndoCase =>
       /\ Lines(last.docname)[last.pre.child_name].child_status = "Picked Up"
       /\ tabItem[last.pre.item_code] = "Rented Out"
       /\ tabSalesOrder[last.docname].status =
             IF Len(Lines(last.docname)) = 1 THEN "Picked Up"
             ELSE IF \E i \in DOMAIN Lines(last.docname) :
                        Lines(last.docname)[i].child_status = "Submitted to Office"
                  THEN "Partially Closed"
                  ELSE "Active"

\* C38 witness: the pair was made on a "Picked Up" line of a two-line order
\* whose header was "Picked Up"; the line and the item are as before, the
\* header is not.
C38_Witness ==
    /\ UndoCase
    /\ Len(Lines(last.docname)) > 1
    /\ last.pre.status = "Picked Up"
    /\ tabSalesOrder[last.docname].status # last.pre.status
    /\ Lines(last.docname)[last.pre.child_name].child_status = "Picked Up"
    /\ tabItem[last.pre.item_code] = "Rented Out"

DerivationOps ==
    {"make_delivery_note", "make_sales_invoice", "make_material_request",
     "make_purchase_order", "create_pick_list"}

\* C39: a derivation that returns a draft leaves the source order as it
\* was (the header and every field of every line, qty, delivered_qty,
\* ordered_qty, picked_qty and child_status among them), so the same
\* derivation called again at once with the same arguments returns an
\* equal draft.
C39_SourceOrderUnchanged ==
    [][last'.op \in DerivationOps =>
         /\ tabSalesOrder' = tabSalesOrder
         /\ tabSalesOrderItem' = tabSalesOrderItem
         /\ (last.op = last'.op /\ last.docname = last'.docname /\ last.pre = last'.pre) =>
               last'.ret = last.ret]_vars

\* C39 witness: a Sales Invoice was derived with a line for the unbilled
\* part (600 of 1000) of an order line, which still has its billed_amt and
\* its quantities.
C39_Witness ==
    /\ last.op = "make_sales_invoice"
    /\ \E k \in DOMAIN last.ret.items :
          /\ last.ret.items[k].amount = 600
          /\ SourceOf(last.docname, last.ret.items[k]).billed_amt = 400
          /\ SourceOf(last.docname, last.ret.items[k]).qty = 10

====
